---- MODULE Spec2Model ----
(***************************************************************************)
(* Model of the colourziller region pipeline:                              *)
(*   lib/maskGenerator.ts  generateMasks / floodFill / createMaskData      *)
(*   lib/maskGenerator.ts  groupMasksByNormal                              *)
(*   lib/maskUtils.ts      buildPixelLookup / findMaskAtPoint /            *)
(*                         calculateSimilarity / findSmartGroup /          *)
(*                         findColorSimilarMasks / findSimilarMasks        *)
(* Images are tiny (a handful of pixels); MIN_MASK_SIZE and                *)
(* MAX_FLOOD_FILL_STACK are parameters of a run, drawn from small sets,    *)
(* because their shipped values (100 and 5,000,000) need images no model   *)
(* checker can enumerate.                                                  *)
(***************************************************************************)
EXTENDS Integers, Sequences, FiniteSets, TLC

\* ------------------------------------------------------------------ bounds
\* Largest image area (width * height) of the segmentation specification.
MaxPixels == 8
\* Largest image area of the two-image cache specification.
CacheMaxPixels == 3
\* Largest image area of the malformed-input specification.
MalformedMaxPixels == 4
\* How many images the cache specification segments one after the other.
MaxImages == 2
\* Longest allMasks list of the clustering specification.
MaxGroup == 3
\* Width of the one-row image whose far regions all score alike.
WideWidth == 24
\* Width of the one-row image of the elbow scenario.
ElbowWidth == 14
\* Longest masks list given to groupMasksByNormal.
MaxNormalList == 3
\* The small flood-fill ceiling a run may be given (the other is unreachable).
SmallCeiling == 3
\* The larger of the two minimum region sizes a run may be given.
SmallMinSize == 2
\* The largest region whose edge distances are computed.
MaxFeatherPixels == 2
\* The largest feather radius maxDistance.
MaxRadius == 2
\* How many asynchronous loads may be in flight at once.
MaxLoads == 2

\* ------------------------------------------------------- program constants
EDGE_THRESHOLD == 200
\* JavaScript's Infinity, the start value of computeBoundingBox's minima.
Infinity == 1000000
\* JavaScript's NaN: what a sum over an out-of-range (undefined) read gives.
NaN == -1
\* The "no region" value of the ownership index.
NoMask == -1

\* Values used for "nothing yet" in variables that hold a result.
Null == [none |-> TRUE]

\* The image set identifiers (lib/types.ts IMAGE_SETS), two of the six.
IMAGE_SETS == {"1", "2"}

\* Edge-map samples, RGB: mean 199.67 (an edge) and mean 200 (not an edge).
EdgeSamples == {<<199, 200, 200>>, <<200, 200, 200>>}
\* Normal-map samples, RGB.
NormalFront == <<128, 128, 255>>
NormalSide == <<255, 128, 128>>
\* About 25 and 50 degrees from NormalFront towards NormalSide.
NormalTilt == <<181, 128, 243>>
NormalLean == <<225, 128, 209>>

VARIABLES
    imageSetId,         \* createMaskData's imageSetId
    edgeData,           \* [width, height, data]: the edge buffer
    normalData,         \* [width, height, data]: the normal buffer
    minMaskSize,        \* MIN_MASK_SIZE of this run
    maxFloodFillStack,  \* MAX_FLOOD_FILL_STACK of this run
    pc,                 \* position in generateMasks: mark, scan, fill, done
    visited,            \* generateMasks' visited bitmap
    masks,              \* generateMasks' masks list
    maskId,             \* generateMasks' maskId counter
    sx, sy,             \* the scan loops' x and y
    stack,              \* floodFill's stack (top is the last element)
    pixels,             \* floodFill's pixels list
    runs,               \* history: every finished flood-fill run
    status,             \* what the caller of generateMasks was told
    imagesDone,         \* how many createMaskData calls have returned
    lookupCache,        \* maskUtils' lookupCache: imageSetId -> lookup
    pixelLookup,        \* [array]: what the last buildPixelLookup returned
    hit,                \* the last findMaskAtPoint call and its result
    seedMask,           \* findSmartGroup's seedMask
    allMasks,           \* findSmartGroup's allMasks
    useImageData,       \* whether findSmartGroup is given imageData
    similarityThreshold,\* findSmartGroup's similarityThreshold, in 1/10000
    groupResult,        \* [list]: what the last findSmartGroup call returned
    maskData,           \* [width, height, data]: the image of the regions
    colorSimilar,       \* the last findColorSimilarMasks call and its result
    normalSimilar,      \* the last findSimilarMasks call and its result
    pairScore,          \* the last pair of calculateSimilarity calls
    normalGroups,       \* the last groupMasksByNormal call and its result
    previousRun,        \* history: inputs and result of the previous generateMasks run
    painted,            \* the last pair of applyPaintColor calls and their results
    roundTrip,          \* the last hslToRgb call fed back into rgbToHsl
    edgeDistances,      \* the last computeEdgeDistances call and its result
    currentSetId,       \* PaintVisualizer's currentSetId
    selectedMaskIds,    \* PaintVisualizer's selectedMaskIds
    appliedColors,      \* PaintVisualizer's appliedColors: region id -> paint
    viewMode,           \* PaintVisualizer's viewMode
    activePaintColor,   \* PaintVisualizer's activePaintColor
    paintData,          \* the loaded data in state: maskData, pixelLookup,
                        \* cleanedImage, normalImage, isLoading, error
    loads,              \* the asynchronous loads in flight, oldest first
    maskCache,          \* maskUtils' maskCache: the image sets fetched so far
    localStorage,       \* the item 'colourziller-storage-v1', or Null
    lastClick,          \* history: the last canvas click, state before and after
    origin,             \* history: the image set each entry was hit-tested against
    beforeReload        \* history: the state just before the last reload

segVars == <<imageSetId, edgeData, normalData, minMaskSize, maxFloodFillStack,
             pc, visited, masks, maskId, sx, sy, stack, pixels, runs, status>>
useVars == <<imagesDone, lookupCache, pixelLookup, hit, previousRun>>
grpVars == <<seedMask, allMasks, useImageData, similarityThreshold, groupResult,
             maskData, colorSimilar, normalSimilar, pairScore, normalGroups>>
colVars == <<painted, roundTrip, edgeDistances>>
uiVars == <<currentSetId, selectedMaskIds, appliedColors, viewMode,
            activePaintColor, paintData, loads, maskCache, localStorage,
            lastClick, origin, beforeReload>>
vars == <<segVars, useVars, grpVars, colVars, uiVars>>

\* ----------------------------------------------------------------- helpers
Width == edgeData.width
Height == edgeData.height
TotalPixels == Width * Height
Addresses == 0 .. (TotalPixels - 1)

Range(s) == {s[i] : i \in 1 .. Len(s)}

\* An edge test that counts gray = 200 as an edge too.
IsEdgePixelInclusive(imageData, x, y) ==
    LET px == imageData.data[y * imageData.width + x]
    IN  px[1] + px[2] + px[3] <= 3 * EDGE_THRESHOLD

\* isEdgePixel: gray = (r + g + b) / 3 (a real division); edge iff gray < 200.
IsEdgePixel(imageData, x, y) ==
    LET px == imageData.data[y * imageData.width + x]
    IN  px[1] + px[2] + px[3] < 3 * EDGE_THRESHOLD

\* getPixelRGB: reads data[idx..idx+2]; past the buffer's end the reads are
\* undefined and every sum over them is NaN.
GetPixelRGB(imageData, x, y) ==
    LET a == y * imageData.width + x
    IN  IF a \in DOMAIN imageData.data THEN imageData.data[a]
        ELSE <<NaN, NaN, NaN>>

\* Math.round of a non-negative quotient n / d: half rounds up.
MathRound(n, d) == (2 * n + d) \div (2 * d)

\* Similarities, scores, saturations and lightnesses are fixed point, in
\* units of 1/Unit.
Unit == 100 * 100

\* ------------------------------------------------------ colour conversions
\* Hues are fixed point too, in thousandths of a degree.
Degree == 1000

\* hue2rgb of hslToRgb, with t in thousandths of a degree instead of turns.
hue2rgb(p, q, t0) ==
    LET t == IF t0 < 0 THEN t0 + 360 * Degree
             ELSE IF t0 > 360 * Degree THEN t0 - 360 * Degree ELSE t0
    IN  IF t < 60 * Degree THEN p + MathRound((q - p) * t, 60 * Degree)
        ELSE IF t < 180 * Degree THEN q
        ELSE IF t < 240 * Degree
             THEN p + MathRound((q - p) * (240 * Degree - t), 60 * Degree)
        ELSE p

\* A conversion that truncates each channel instead of rounding it.
hslToRgbTruncated(h, s, l) ==
    IF s = 0
    THEN LET grey == (l * 255) \div Unit IN <<grey, grey, grey>>
    ELSE LET q == IF 2 * l < Unit THEN MathRound(l * (Unit + s), Unit)
                  ELSE l + s - MathRound(l * s, Unit)
             p == 2 * l - q
         IN  <<(hue2rgb(p, q, h + 120 * Degree) * 255) \div Unit,
               (hue2rgb(p, q, h) * 255) \div Unit,
               (hue2rgb(p, q, h - 120 * Degree) * 255) \div Unit>>

\* hslToRgb: the three channels, each Math.round(channel * 255).
hslToRgb(h, s, l) ==
    IF s = 0
    THEN LET grey == MathRound(l * 255, Unit) IN <<grey, grey, grey>>
    ELSE LET q == IF 2 * l < Unit THEN MathRound(l * (Unit + s), Unit)
                  ELSE l + s - MathRound(l * s, Unit)
             p == 2 * l - q
         IN  <<MathRound(hue2rgb(p, q, h + 120 * Degree) * 255, Unit),
               MathRound(hue2rgb(p, q, h) * 255, Unit),
               MathRound(hue2rgb(p, q, h - 120 * Degree) * 255, Unit)>>

\* Number.toString(16) of one digit.
HexDigits == <<"0", "1", "2", "3", "4", "5", "6", "7",
               "8", "9", "a", "b", "c", "d", "e", "f">>

\* rgbToHex: '#' and two padded hexadecimal digits per channel.
rgbToHex(rgb) ==
    LET pair(x) == HexDigits[(x \div 16) + 1] \o HexDigits[(x % 16) + 1]
    IN  "#" \o pair(rgb[1]) \o pair(rgb[2]) \o pair(rgb[3])

\* generateDistinctColor: the golden-angle hue of the index, with
\* saturation 0.7 + (index % 3) * 0.1 and lightness 0.5 + (index % 2) * 0.15.
generateDistinctColor(index) ==
    LET hue == (index * 222492) % (360 * Degree)
        saturation == 7000 + (index % 3) * 1000
        lightness == 5000 + (index % 2) * 1500
    IN  rgbToHex(hslToRgb(hue, saturation, lightness))

RECURSIVE BoundingBoxLoop(_, _, _, _)
BoundingBoxLoop(pxs, i, width, box) ==
    IF i > Len(pxs) THEN box
    ELSE LET x == pxs[i] % width
             y == pxs[i] \div width
         IN  BoundingBoxLoop(pxs, i + 1, width,
                [minX |-> IF x < box.minX THEN x ELSE box.minX,
                 maxX |-> IF x > box.maxX THEN x ELSE box.maxX,
                 minY |-> IF y < box.minY THEN y ELSE box.minY,
                 maxY |-> IF y > box.maxY THEN y ELSE box.maxY])

\* A bounding box whose minima start at 0 instead of Infinity.
computeBoundingBoxFromZero(pxs, width) ==
    BoundingBoxLoop(pxs, 1, width,
        [minX |-> 0, minY |-> 0, maxX |-> -Infinity, maxY |-> -Infinity])

computeBoundingBox(pxs, width) ==
    BoundingBoxLoop(pxs, 1, width,
        [minX |-> Infinity, minY |-> Infinity,
         maxX |-> -Infinity, maxY |-> -Infinity])

RECURSIVE NormalSumLoop(_, _, _, _, _)
NormalSumLoop(pxs, i, nd, width, acc) ==
    IF i > Len(pxs) THEN acc
    ELSE LET p == GetPixelRGB(nd, pxs[i] % width, pxs[i] \div width)
         IN  NormalSumLoop(pxs, i + 1, nd, width,
                IF acc[1] = NaN \/ p[1] = NaN THEN <<NaN, NaN, NaN>>
                ELSE <<acc[1] + p[1], acc[2] + p[2], acc[3] + p[3]>>)

computeAverageNormal(pxs, nd, width) ==
    LET sum == NormalSumLoop(pxs, 1, nd, width, <<0, 0, 0>>)
        count == Len(pxs)
    IN  IF sum[1] = NaN \/ count = 0 THEN <<NaN, NaN, NaN>>
        ELSE <<MathRound(sum[1], count), MathRound(sum[2], count),
               MathRound(sum[3], count)>>

\* ------------------------------------------------------------------ inputs
Shapes(maxArea) ==
    {wh \in (1 .. maxArea) \X (1 .. maxArea) : wh[1] * wh[2] <= maxArea}

EdgeBuffers(w, h) ==
    {[width |-> w, height |-> h, data |-> d] :
        d \in [0 .. (w * h - 1) -> EdgeSamples]}

\* Two normal maps per shape: a flat wall and one alternating two facets.
FlatNormals(w, h) ==
    [width |-> w, height |-> h,
     data |-> [a \in 0 .. (w * h - 1) |-> NormalFront]]

NormalBuffers(w, h) ==
    {FlatNormals(w, h),
     [width |-> w, height |-> h,
      data |-> [a \in 0 .. (w * h - 1) |->
                    IF a % 2 = 0 THEN NormalFront ELSE NormalSide]]}

\* (MIN_MASK_SIZE, MAX_FLOOD_FILL_STACK) of a run; maxArea + 1 is a ceiling
\* no run reaches.
Parameters(maxArea) ==
    {<<1, maxArea + 1>>, <<SmallMinSize, maxArea + 1>>, <<1, SmallCeiling>>}

\* The state at the entry of createMaskData(id, e, n).
\* A start that lets the region counter run on from the previous call.
StartRunKeepIds(id, e, n, params) ==
    /\ imageSetId' = id
    /\ edgeData' = e
    /\ normalData' = n
    /\ minMaskSize' = params[1]
    /\ maxFloodFillStack' = params[2]
    /\ pc' = "mark"
    /\ visited' = [a \in 0 .. (e.width * e.height - 1) |-> 0]
    /\ masks' = <<>>
    /\ maskId' = maskId
    /\ sx' = 0
    /\ sy' = 0
    /\ stack' = <<>>
    /\ pixels' = <<>>
    /\ runs' = <<>>
    /\ status' = "running"

StartRun(id, e, n, params) ==
    /\ imageSetId' = id
    /\ edgeData' = e
    /\ normalData' = n
    /\ minMaskSize' = params[1]
    /\ maxFloodFillStack' = params[2]
    /\ pc' = "mark"
    /\ visited' = [a \in 0 .. (e.width * e.height - 1) |-> 0]
    /\ masks' = <<>>
    /\ maskId' = 0
    /\ sx' = 0
    /\ sy' = 0
    /\ stack' = <<>>
    /\ pixels' = <<>>
    /\ runs' = <<>>
    /\ status' = "running"

InitRun(id, e, n, params) ==
    /\ imageSetId = id
    /\ edgeData = e
    /\ normalData = n
    /\ minMaskSize = params[1]
    /\ maxFloodFillStack = params[2]
    /\ pc = "mark"
    /\ visited = [a \in 0 .. (e.width * e.height - 1) |-> 0]
    /\ masks = <<>>
    /\ maskId = 0
    /\ sx = 0
    /\ sy = 0
    /\ stack = <<>>
    /\ pixels = <<>>
    /\ runs = <<>>
    /\ status = "running"

InitColorIdle ==
    /\ previousRun = Null
    /\ painted = Null
    /\ roundTrip = Null
    /\ edgeDistances = Null

InitVisualizerIdle ==
    /\ currentSetId = "1"
    /\ selectedMaskIds = {}
    /\ appliedColors = [id \in {} |-> ""]
    /\ viewMode = "normal"
    /\ activePaintColor = ""
    /\ paintData = Null
    /\ loads = <<>>
    /\ maskCache = {}
    /\ localStorage = Null
    /\ lastClick = Null
    /\ origin = Null
    /\ beforeReload = Null

InitLibraryIdle ==
    /\ imagesDone = 0
    /\ lookupCache = [id \in {} |-> Null]
    /\ pixelLookup = Null
    /\ hit = Null
    /\ seedMask = Null
    /\ allMasks = <<>>
    /\ useImageData = FALSE
    /\ similarityThreshold = 0
    /\ groupResult = Null
    /\ maskData = Null
    /\ colorSimilar = Null
    /\ normalSimilar = Null
    /\ pairScore = Null
    /\ normalGroups = Null
    /\ InitColorIdle

InitUse == InitLibraryIdle /\ InitVisualizerIdle

Init ==
    /\ \E wh \in Shapes(MaxPixels), params \in Parameters(MaxPixels) :
         \E e \in EdgeBuffers(wh[1], wh[2]), n \in NormalBuffers(wh[1], wh[2]) :
            InitRun("1", e, n, params)
    /\ InitUse

\* ----------------------------------------------------------- generateMasks
\* Lines 169-176: mark every edge pixel visited.
MarkEdges ==
    /\ pc = "mark"
    /\ visited' = [a \in Addresses |->
                     IF IsEdgePixel(edgeData, a % Width, a \div Width)
                     THEN 1 ELSE 0]
    /\ pc' = "scan"
    /\ UNCHANGED <<imageSetId, edgeData, normalData, minMaskSize,
                   maxFloodFillStack, masks, maskId, sx, sy, stack, pixels,
                   runs, status>>
    /\ UNCHANGED <<useVars, grpVars, colVars, uiVars>>

\* Mutant: the two scan loops swapped (columns outside, rows inside).
ScanAdvanceColumnMajor ==
    IF sy + 1 < Height THEN <<sx, sy + 1>> ELSE <<sx + 1, 0>>

\* The scan loops' increment (lines 182-183): x++, and at the end of a row
\* y++ and x = 0. The pair <<x, y>> after the increment.
ScanAdvance == IF sx + 1 < Width THEN <<sx + 1, sy>> ELSE <<0, sy + 1>>
NextX == ScanAdvance[1]
NextY == ScanAdvance[2]

\* Lines 186-188: a visited pixel is skipped.
ScanSkip ==
    /\ pc = "scan"
    /\ sy < Height /\ sx < Width
    /\ visited[sy * Width + sx] = 1
    /\ sx' = NextX
    /\ sy' = NextY
    /\ UNCHANGED <<imageSetId, edgeData, normalData, minMaskSize,
                   maxFloodFillStack, pc, visited, masks, maskId, stack,
                   pixels, runs, status>>
    /\ UNCHANGED <<useVars, grpVars, colVars, uiVars>>

\* Line 191 and floodFill's lines 63-68: a flood fill starts at the seed.
ScanSeed ==
    /\ pc = "scan"
    /\ sy < Height /\ sx < Width
    /\ visited[sy * Width + sx] = 0
    /\ stack' = << <<sx, sy>> >>
    /\ pixels' = <<>>
    /\ pc' = "fill"
    /\ UNCHANGED <<imageSetId, edgeData, normalData, minMaskSize,
                   maxFloodFillStack, visited, masks, maskId, sx, sy, runs,
                   status>>
    /\ UNCHANGED <<useVars, grpVars, colVars, uiVars>>

\* floodFill's loop condition (line 70).
FillContinues == Len(stack) > 0 /\ Len(pixels) < maxFloodFillStack

\* Mutant: the "already visited" test of lines 81-83 is missing.
FillSkipsNoVisited(x, y) ==
    \/ x < 0 \/ x >= Width \/ y < 0 \/ y >= Height
    \/ IsEdgePixel(edgeData, x, y)

\* Whether a popped coordinate is skipped (lines 74-88).
FillSkips(x, y) ==
    \/ x < 0 \/ x >= Width \/ y < 0 \/ y >= Height
    \/ visited[y * Width + x] = 1
    \/ IsEdgePixel(edgeData, x, y)

\* Mutant: the neighbour above is not pushed.
NeighboursNoUp(x, y) == << <<x + 1, y>>, <<x - 1, y>>, <<x, y + 1>> >>

\* The 4-connected neighbours, in the order they are pushed (lines 95-98).
Neighbours(x, y) == << <<x + 1, y>>, <<x - 1, y>>, <<x, y + 1>>, <<x, y - 1>> >>

\* One iteration of floodFill's loop (lines 70-99).
FillStep ==
    /\ pc = "fill"
    /\ FillContinues
    /\ LET top == stack[Len(stack)]
           rest == SubSeq(stack, 1, Len(stack) - 1)
           x == top[1]
           y == top[2]
       IN  IF FillSkips(x, y)
           THEN /\ stack' = rest
                /\ UNCHANGED <<visited, pixels>>
           ELSE /\ visited' = [visited EXCEPT ![y * Width + x] = 1]
                /\ pixels' = Append(pixels, y * Width + x)
                /\ stack' = rest \o Neighbours(x, y)
    /\ UNCHANGED <<imageSetId, edgeData, normalData, minMaskSize,
                   maxFloodFillStack, pc, masks, maskId, sx, sy, runs, status>>
    /\ UNCHANGED <<useVars, grpVars, colVars, uiVars>>

\* A coordinate left on the stack that the loop would still have collected.
Unexplored(xy) == ~FillSkips(xy[1], xy[2])

\* Mutant: the noise filter is off by one.
TooSmallOffByOne(pxs) == Len(pxs) < minMaskSize - 1

\* The noise filter (line 194).
TooSmall(pxs) == Len(pxs) < minMaskSize

\* floodFill returns (line 101); generateMasks drops the run or emits a mask
\* (lines 193-212) and the scan moves on.
FillEnd ==
    /\ pc = "fill"
    /\ ~FillContinues
    /\ LET kept == ~TooSmall(pixels)
       IN  /\ runs' = Append(runs,
                [pixels |-> pixels, kept |-> kept,
                 truncated |-> \E i \in 1 .. Len(stack) : Unexplored(stack[i])])
           /\ IF kept
              THEN /\ masks' = Append(masks,
                        [id |-> maskId,
                         pixelIndices |-> pixels,
                         bounds |-> computeBoundingBox(pixels, Width),
                         avgNormal |-> computeAverageNormal(pixels, normalData, Width),
                         pixelCount |-> Len(pixels),
                         displayColor |-> generateDistinctColor(maskId)])
                   /\ maskId' = maskId + 1
              ELSE UNCHANGED <<masks, maskId>>
    /\ stack' = <<>>
    /\ pixels' = <<>>
    /\ sx' = NextX
    /\ sy' = NextY
    /\ pc' = "scan"
    /\ UNCHANGED <<imageSetId, edgeData, normalData, minMaskSize,
                   maxFloodFillStack, visited, status>>
    /\ UNCHANGED <<useVars, grpVars, colVars, uiVars>>

\* Lines 220-221 and createMaskData's lines 234-240: the list is returned.
ScanEnd ==
    /\ pc = "scan"
    /\ ~(sy < Height /\ sx < Width)
    /\ pc' = "done"
    /\ status' = "returned"
    /\ imagesDone' = imagesDone + 1
    /\ UNCHANGED <<imageSetId, edgeData, normalData, minMaskSize,
                   maxFloodFillStack, visited, masks, maskId, sx, sy, stack,
                   pixels, runs>>
    /\ UNCHANGED <<lookupCache, pixelLookup, hit, previousRun, grpVars, colVars, uiVars>>

\* createMaskData's result.
MaskDataOf ==
    [imageSetId |-> imageSetId, width |-> Width, height |-> Height,
     masks |-> masks]

Segment == MarkEdges \/ ScanSkip \/ ScanSeed \/ FillStep \/ FillEnd \/ ScanEnd

\* -------------------------------------------------------- buildPixelLookup
\* Mutant: the array is left at a typed array's initial zeros.
EmptyLookupZero(md) == [a \in 0 .. (md.width * md.height - 1) |-> 0]

\* new Int32Array(totalPixels).fill(-1) (line 50).
EmptyLookup(md) == [a \in 0 .. (md.width * md.height - 1) |-> NoMask]

\* Lines 53-57: every mask writes its id at its pixels, in list order; a
\* write past the end of a typed array is dropped.
RECURSIVE FillLookup(_, _, _)
FillLookup(ms, i, lookup) ==
    IF i > Len(ms) THEN lookup
    ELSE FillLookup(ms, i + 1,
            [a \in DOMAIN lookup |->
                IF a \in Range(ms[i].pixelIndices) THEN ms[i].id
                ELSE lookup[a]])

BuildLookupArray(md) == FillLookup(md.masks, 1, EmptyLookup(md))

\* buildPixelLookup(maskData) on the RegionSet createMaskData returned.
BuildPixelLookup ==
    /\ pc = "done"
    /\ LET cacheKey == MaskDataOf.imageSetId
       IN  IF cacheKey \in DOMAIN lookupCache
           THEN /\ pixelLookup' = [array |-> lookupCache[cacheKey]]
                /\ UNCHANGED lookupCache
           ELSE LET lookup == BuildLookupArray(MaskDataOf)
                IN  /\ lookupCache' =
                        [k \in DOMAIN lookupCache \cup {cacheKey} |->
                            IF k = cacheKey THEN lookup ELSE lookupCache[k]]
                    /\ pixelLookup' = [array |-> lookup]
    /\ hit' = Null
    /\ UNCHANGED <<imagesDone, previousRun>>
    /\ UNCHANGED <<segVars, grpVars, colVars, uiVars>>

\* --------------------------------------------------------- findMaskAtPoint
\* masks.find(m => m.id === maskId) ?? null (line 84).
RECURSIVE FindById(_, _, _)
FindById(ms, i, id) ==
    IF i > Len(ms) THEN Null
    ELSE IF ms[i].id = id THEN ms[i]
    ELSE FindById(ms, i + 1, id)

\* Mutant: the upper bounds are tested with > instead of >=.
OutOfBoundsOffByOne(x, y, md) ==
    x < 0 \/ x > md.width \/ y < 0 \/ y > md.height

\* The bounds check of line 73.
OutOfBounds(x, y, md) == x < 0 \/ x >= md.width \/ y < 0 \/ y >= md.height

\* maskUtils.findMaskAtPoint (lines 66-85). A read past the end of the
\* lookup gives undefined, which is not -1 and is no mask's id.
findMaskAtPoint(x, y, md, lookup) ==
    IF OutOfBounds(x, y, md) THEN Null
    ELSE LET pixelIdx == y * md.width + x
         IN  IF pixelIdx \notin DOMAIN lookup THEN Null
             ELSE IF lookup[pixelIdx] = NoMask THEN Null
             ELSE FindById(md.masks, 1, lookup[pixelIdx])

\* maskGenerator.findMaskAtPoint (lines 247-272): the first region whose
\* bounding box holds (x, y) and whose pixel list includes y * imageWidth + x.
RECURSIVE BoundsScanLoop(_, _, _, _, _)
BoundsScanLoop(ms, i, x, y, imageWidth) ==
    IF i > Len(ms) THEN Null
    ELSE LET mask == ms[i]
             targetIdx == y * imageWidth + x
         IN  IF \/ x < mask.bounds.minX \/ x > mask.bounds.maxX
                \/ y < mask.bounds.minY \/ y > mask.bounds.maxY
             THEN BoundsScanLoop(ms, i + 1, x, y, imageWidth)
             ELSE IF \E k \in 1 .. Len(mask.pixelIndices) :
                        mask.pixelIndices[k] = targetIdx
             THEN mask
             ELSE BoundsScanLoop(ms, i + 1, x, y, imageWidth)

generatorFindMaskAtPoint(ms, x, y, imageWidth) ==
    BoundsScanLoop(ms, 1, x, y, imageWidth)

\* A click: findMaskAtPoint(x, y, maskData, pixelLookup) with the lookup
\* buildPixelLookup returned for maskData. One call is on record at a time;
\* the next buildPixelLookup clears the record.
FindMaskAtPoint ==
    /\ pc = "done"
    /\ pixelLookup # Null
    /\ hit = Null
    /\ \E x \in (-1) .. Width, y \in (-1) .. Height :
         hit' = [x |-> x, y |-> y,
                 result |-> findMaskAtPoint(x, y, MaskDataOf, pixelLookup.array)]
    /\ UNCHANGED <<imagesDone, lookupCache, pixelLookup, previousRun>>
    /\ UNCHANGED <<segVars, grpVars, colVars, uiVars>>

\* The build script moves on to the next image set (or runs again): module
\* state (lookupCache) survives, the component's lookup and hit do not.
NextImage ==
    /\ pc = "done"
    /\ imagesDone < MaxImages
    /\ \E wh \in Shapes(CacheMaxPixels), id \in IMAGE_SETS :
         \E e \in EdgeBuffers(wh[1], wh[2]) :
            StartRun(id, e, FlatNormals(wh[1], wh[2]), <<1, CacheMaxPixels + 1>>)
    /\ pixelLookup' = Null
    /\ hit' = Null
    /\ previousRun' = [edgeData |-> edgeData, normalData |-> normalData,
                       minMaskSize |-> minMaskSize,
                       maxFloodFillStack |-> maxFloodFillStack,
                       masks |-> masks]
    /\ UNCHANGED <<imagesDone, lookupCache, grpVars, colVars, uiVars>>

Next == Segment \/ BuildPixelLookup \/ FindMaskAtPoint

Spec == Init /\ [][Next]_vars

\* Buffers createMaskData accepts although the pipeline's contract excludes
\* them: a normal buffer of another shape, or an image of zero area.
InitMalformed ==
    /\ \E wh \in Shapes(MalformedMaxPixels) \cup {<<0, 0>>, <<0, 2>>, <<2, 0>>} :
         \E nwh \in {<<wh[1] + 1, wh[2]>>, <<wh[1], wh[2] - 1>>, wh} :
            /\ nwh[2] >= 0
            /\ nwh # wh \/ wh[1] * wh[2] = 0
            /\ \E e \in EdgeBuffers(wh[1], wh[2]) :
                  InitRun("1", e, FlatNormals(nwh[1], nwh[2]),
                          <<1, MalformedMaxPixels + 1>>)
    /\ InitUse

SpecMalformed == InitMalformed /\ [][Next]_vars

\* Two images in a row, each under either image set id.
InitCache ==
    /\ \E wh \in Shapes(CacheMaxPixels), id \in IMAGE_SETS :
         \E e \in EdgeBuffers(wh[1], wh[2]) :
            InitRun(id, e, FlatNormals(wh[1], wh[2]), <<1, CacheMaxPixels + 1>>)
    /\ InitUse

NextCache == Next \/ NextImage

SpecCache == InitCache /\ [][NextCache]_vars

\* A 4 x 4 edge map whose only edge pixels are row r and column c.
CrossImage(r, c) ==
    [width |-> 4, height |-> 4,
     data |-> [a \in 0 .. 15 |->
                  IF a % 4 = c \/ a \div 4 = r THEN <<199, 200, 200>>
                  ELSE <<200, 200, 200>>]]
\* The rows and columns next to the centre of a 4 x 4 image.
CrossLines == {1, 2}
\* The minimum region sizes of the cross runs.
CrossMinSizes == {1, 5}

\* createMaskData on a cross image, with a ceiling no run reaches.
InitCross ==
    /\ \E r \in CrossLines, c \in CrossLines, minSize \in CrossMinSizes :
         \E n \in NormalBuffers(4, 4) :
            InitRun("1", CrossImage(r, c), n, <<minSize, 4 * 4 + 1>>)
    /\ InitUse

SpecCross == InitCross /\ [][Next]_vars

\* ------------------------------------------ similarity and smart grouping
\* floor(sqrt(n)) by bisection, for 0 <= n < 2^31.
RECURSIVE ISqrtSearch(_, _, _)
ISqrtSearch(n, lo, hi) ==
    IF hi - lo <= 1 THEN lo
    ELSE LET mid == (lo + hi) \div 2
         IN  IF mid * mid <= n THEN ISqrtSearch(n, mid, hi)
             ELSE ISqrtSearch(n, lo, mid)

ISqrt(n) == ISqrtSearch(n, 0, 46341)

Abs(n) == IF n < 0 THEN -n ELSE n
Max(a, b) == IF a > b THEN a ELSE b
Min(a, b) == IF a < b THEN a ELSE b

\* normalizeVector (maskUtils.ts lines 110-119): each channel c/255*2-1, then
\* the unit vector, components in 1/Unit; a zero vector gives [0, 0, 1].
normalizeVector(rgb) ==
    LET v == [i \in 1 .. 3 |-> 2 * rgb[i] - 255]
        len100 == ISqrt((v[1] * v[1] + v[2] * v[2] + v[3] * v[3]) * Unit)
        c(i) == IF v[i] < 0 THEN -((-v[i] * Unit * 100) \div len100)
                ELSE (v[i] * Unit * 100) \div len100
    IN  IF len100 = 0 THEN <<0, 0, Unit>> ELSE <<c(1), c(2), c(3)>>

\* The image the clustering calls sample colours from: 4 x 2 pixels, RGB.
GroupImage ==
    [width |-> 4, height |-> 2,
     data |-> << <<100, 100, 100>>, <<130, 130, 130>>, <<131, 131, 131>>,
                 <<100, 100, 100>>, <<200, 100, 100>>, <<200, 100, 100>>,
                 <<100, 100, 100>>, <<101, 100, 100>> >>]

\* imageData[idx], idx = pixel * 4 (lines 181-184).
\* A read that ignores the pixel address (idx left at 0).
ImagePixelFirst(md, a) == md.data[1]
ImagePixel(md, a) == md.data[a + 1]

\* The sampling loop of extractMaskFeatures (lines 180-186): the sum of the
\* sampled pixels and their number.
RECURSIVE SampleLoop(_, _, _, _, _)
SampleLoop(md, pxs, i, sampleRate, acc) ==
    IF ~(i < Len(pxs)) THEN acc
    ELSE LET c == ImagePixel(md, pxs[i + 1])
         IN  SampleLoop(md, pxs, i + sampleRate, sampleRate,
                [r |-> acc.r + c[1], g |-> acc.g + c[2], b |-> acc.b + c[3],
                 samples |-> acc.samples + 1])

\* extractMaskFeatures (lines 159-204). The centre is kept doubled
\* (minX + maxX, minY + maxY) and the aspect ratio as a fraction.
extractMaskFeatures(mask, md, withImage) ==
    LET width == mask.bounds.maxX - mask.bounds.minX
        height == mask.bounds.maxY - mask.bounds.minY
        n == Len(mask.pixelIndices)
        sampleRate == Max(1, n \div 100)
        sum == IF withImage
               THEN SampleLoop(md, mask.pixelIndices, 0, sampleRate,
                               [r |-> 0, g |-> 0, b |-> 0, samples |-> 0])
               ELSE [r |-> 0, g |-> 0, b |-> 0, samples |-> 0]
    IN  [id |-> mask.id,
         centerX2 |-> mask.bounds.minX + mask.bounds.maxX,
         centerY2 |-> mask.bounds.minY + mask.bounds.maxY,
         avgColor |-> IF withImage /\ n > 0
                      THEN <<MathRound(sum.r, sum.samples),
                             MathRound(sum.g, sum.samples),
                             MathRound(sum.b, sum.samples)>>
                      ELSE <<128, 128, 128>>,
         normalVector |-> normalizeVector(mask.avgNormal),
         area |-> mask.pixelCount,
         aspectRatio |-> IF height > 0 THEN <<width, height>> ELSE <<1, 1>>]

\* The squared RGB distance under the square root of lines 222-226, 285-289.
ColorDistSq(a, b) ==
    (a.avgColor[1] - b.avgColor[1]) * (a.avgColor[1] - b.avgColor[1])
    + (a.avgColor[2] - b.avgColor[2]) * (a.avgColor[2] - b.avgColor[2])
    + (a.avgColor[3] - b.avgColor[3]) * (a.avgColor[3] - b.avgColor[3])

\* maxColorDist = sqrt(3 * 255 * 255), in 1/100.
MaxColorDist100 == ISqrt(3 * 255 * 255 * Unit)

\* colorSim = 1 - colorDist / maxColorDist (lines 227-228, 290-291).
ColorSim(distSq) == Unit - (ISqrt(distSq * Unit) * Unit) \div MaxColorDist100

\* log10 of the area ratio num / den >= 1, in 1/Unit (Math.log10, line 239),
\* tabulated for the ratios small regions give.
Log10(num, den) ==
    CASE num = den -> 0
      [] 2 * num = 3 * den -> 1761
      [] num = 2 * den -> 3010
      [] num = 3 * den -> 4771
      [] num = 4 * den -> 6021
      [] num = 5 * den -> 6990
      [] num = 10 * den -> Unit

\* A size similarity that divides a's area by b's, without max and min.
SizeSimOrdered(areaA, areaB) ==
    LET num == areaA
        den == Max(1, areaB)
    IN  IF num = 0 THEN 0
        ELSE IF num < den THEN (Unit * Unit) \div (Unit - Log10(den, num))
        ELSE (Unit * Unit) \div (Unit + Log10(num, den))

\* sizeSim (lines 238-239); with both areas 0 the ratio is 0, its logarithm
\* -Infinity and the quotient -0.
SizeSim(areaA, areaB) ==
    LET num == Max(areaA, areaB)
        den == Max(1, Min(areaA, areaB))
    IN  IF num = 0 THEN 0 ELSE (Unit * Unit) \div (Unit + Log10(num, den))

\* proximitySim (lines 242-246).
ProximitySim(a, b, imageWidth, imageHeight) ==
    LET dx2 == a.centerX2 - b.centerX2
        dy2 == a.centerY2 - b.centerY2
        dist1000 == ISqrt((dx2 * dx2 + dy2 * dy2) * 250000)
        diagonal1000 ==
            ISqrt((imageWidth * imageWidth + imageHeight * imageHeight) * 100 * Unit)
    IN  IF dist1000 * 10 >= 3 * diagonal1000 THEN 0
        ELSE Unit - Min(Unit, (dist1000 * 10 * Unit) \div (3 * diagonal1000))

\* The weight tuples, in percent (lines 219 and 277).
defaultWeights == [color |-> 35, normal |-> 30, size |-> 15, proximity |-> 20]
strictWeights == [color |-> 45, normal |-> 25, size |-> 15, proximity |-> 15]

\* calculateSimilarity (lines 209-255), in 1/Unit.
calculateSimilarity(a, b, imageWidth, imageHeight, weights) ==
    LET colorSim == ColorSim(ColorDistSq(a, b))
        normalDot == (a.normalVector[1] * b.normalVector[1]
                      + a.normalVector[2] * b.normalVector[2]
                      + a.normalVector[3] * b.normalVector[3]) \div Unit
        normalSim == (normalDot + Unit) \div 2
        sizeSim == SizeSim(a.area, b.area)
        proximitySim == ProximitySim(a, b, imageWidth, imageHeight)
    IN  (weights.color * colorSim + weights.normal * normalSim
         + weights.size * sizeSim + weights.proximity * proximitySim) \div 100

\* Mutant: the gate at the 0.85 of the comment on line 308.
PassesColorGateLoose(distSq) == distSq * 10000 <= 225 * 3 * 255 * 255

\* s.colorSim >= colorThreshold with colorThreshold = 0.88 (lines 312-314,
\* 323): 1 - sqrt(d2 / 195075) >= 0.88 iff d2 <= 0.0144 * 195075, which no
\* integer d2 misses by less than 0.9, far above the rounding of a double.
PassesColorGate(distSq) == distSq * 10000 <= 144 * 3 * 255 * 255

\* The elbow loop of findAdaptiveThreshold (lines 354-371); i is 0-based,
\* best holds maxPercentDrop as the fraction num / den and elbowIdx.
RECURSIVE ElbowLoop(_, _, _, _)
ElbowLoop(sortedScores, i, minThreshold, best) ==
    IF ~(i < Min(Len(sortedScores), 12)) THEN best
    ELSE LET prev == sortedScores[i]
             curr == sortedScores[i + 1]
             num == IF prev > 0 THEN prev - curr ELSE 0
             den == IF prev > 0 THEN prev ELSE 1
             absDrop == prev - curr
             isSignificantDrop == num * 100 > 8 * den \/ absDrop * 100 > 5 * Unit
         IN  ElbowLoop(sortedScores, i + 1, minThreshold,
                IF isSignificantDrop /\ num * best.den > best.num * den
                   /\ prev > minThreshold
                THEN [num |-> num, den |-> den, elbowIdx |-> i]
                ELSE best)

\* findAdaptiveThreshold (lines 339-381); the result is in 1/(100 * Unit).
findAdaptiveThreshold(sortedScores, minThreshold) ==
    IF Len(sortedScores) <= 1 THEN minThreshold * 100
    ELSE IF Len(sortedScores) = 2
    THEN Max(minThreshold * 100, sortedScores[2] * 100)
    ELSE LET best == ElbowLoop(sortedScores, 1, minThreshold,
                               [num |-> 0, den |-> 1, elbowIdx |-> 0])
         IN  IF best.elbowIdx > 0 /\ best.num * 100 > 5 * best.den
             THEN Max(minThreshold * 100, sortedScores[best.elbowIdx] * 98)
             ELSE Max(minThreshold * 100, sortedScores[1] * 92)

\* Array.prototype.sort with (a, b) => b.score - a.score (line 305): stable,
\* descending.
RECURSIVE InsertByScore(_, _)
InsertByScore(sorted, e) ==
    IF sorted = <<>> THEN <<e>>
    ELSE IF Head(sorted).score >= e.score
    THEN <<Head(sorted)>> \o InsertByScore(Tail(sorted), e)
    ELSE <<e>> \o sorted

RECURSIVE SortByScore(_, _, _)
SortByScore(entries, i, acc) ==
    IF i > Len(entries) THEN acc
    ELSE SortByScore(entries, i + 1, InsertByScore(acc, entries[i]))

maxSelections == 15

\* The scored entries of lines 279-305, sorted.
SimilarityScores(seed, all, md, withImage) ==
    LET seedFeatures == extractMaskFeatures(seed, md, withImage)
        entries == [i \in 1 .. Len(all) |->
            LET features == extractMaskFeatures(all[i], md, withImage)
            IN  [mask |-> all[i],
                 score |-> calculateSimilarity(seedFeatures, features,
                                md.width, md.height, strictWeights),
                 colorDistSq |-> ColorDistSq(seedFeatures, features)]]
    IN  SortByScore(entries, 1, <<>>)

\* A seed inclusion that puts the seed in front unconditionally.
IncludeSeedAlways(result, seed) == <<seed>> \o result

\* "Always include the seed mask" (lines 327-330).
IncludeSeed(result, seed) ==
    IF \E i \in 1 .. Len(result) : result[i].id = seed.id THEN result
    ELSE <<seed>> \o result

\* findSmartGroup (lines 262-333).
findSmartGroup(seed, all, md, withImage, threshold) ==
    LET similarityScores == SimilarityScores(seed, all, md, withImage)
        Gate(e) == PassesColorGate(e.colorDistSq)
        survivors == SelectSeq(similarityScores, Gate)
        scores == [i \in 1 .. Len(survivors) |-> survivors[i].score]
        adaptiveThreshold == findAdaptiveThreshold(scores, threshold)
        Chosen(e) == e.score * 100 >= adaptiveThreshold /\ Gate(e)
        filtered == SelectSeq(similarityScores, Chosen)
        sliced == SubSeq(filtered, 1, Min(Len(filtered), maxSelections))
        result == [i \in 1 .. Len(sliced) |-> sliced[i].mask]
    IN  IncludeSeed(result, seed)

\* Math.cos(angleTolerance * Math.PI / 180) in 1/Unit (lines 96 and
\* maskGenerator.ts 283), for the default tolerances 25 and 30 degrees.
CosThreshold(angleTolerance) ==
    CASE angleTolerance = 25 -> 9063
      [] angleTolerance = 30 -> 8660

\* n1 . n2 >= cosThreshold for two avgNormal values (lines 98-103).
WithinTolerance(normalA, normalB, angleTolerance) ==
    LET n1 == normalizeVector(normalA)
        n2 == normalizeVector(normalB)
    IN  n1[1] * n2[1] + n1[2] * n2[2] + n1[3] * n2[3]
            >= CosThreshold(angleTolerance) * Unit

\* findSimilarMasks (lines 91-105).
findSimilarMasks(mask, all, angleTolerance) ==
    LET Similar(other) ==
            WithinTolerance(mask.avgNormal, other.avgNormal, angleTolerance)
    IN  SelectSeq(all, Similar)

\* A colour test that leaves out a region exactly at the threshold.
ColorSimAtLeastStrict(distSq, colorThreshold) ==
    distSq * 10000 < (100 - colorThreshold) * (100 - colorThreshold) * 3 * 255 * 255

\* colorSim >= colorThreshold (line 407), colorThreshold in percent:
\* 1 - sqrt(d2 / 195075) >= t iff d2 <= (1 - t)^2 * 195075.
ColorSimAtLeast(distSq, colorThreshold) ==
    distSq * 10000 <= (100 - colorThreshold) * (100 - colorThreshold) * 3 * 255 * 255

\* findColorSimilarMasks (lines 386-409).
findColorSimilarMasks(seed, all, md, withImage, colorThreshold) ==
    LET seedFeatures == extractMaskFeatures(seed, md, withImage)
        Similar(mask) ==
            ColorSimAtLeast(
                ColorDistSq(seedFeatures, extractMaskFeatures(mask, md, withImage)),
                colorThreshold)
    IN  SelectSeq(all, Similar)

\* The regions the clustering calls are given: five regions of GroupImage.
GroupMask(id, pxs, normal) ==
    [id |-> id, pixelIndices |-> pxs,
     bounds |-> computeBoundingBox(pxs, GroupImage.width),
     avgNormal |-> normal, pixelCount |-> Len(pxs)]

GroupPool ==
    << GroupMask(0, <<0>>, NormalFront),
       GroupMask(1, <<1>>, NormalFront),
       GroupMask(2, <<2>>, NormalFront),
       GroupMask(3, <<3, 7>>, NormalSide),
       GroupMask(4, <<4, 5>>, NormalSide) >>

\* The lists of at most n distinct regions of the pool, in any order.
RECURSIVE MaskLists(_)
MaskLists(n) ==
    IF n = 0 THEN {<<>>}
    ELSE LET shorter == MaskLists(n - 1)
         IN  shorter \cup
             {Append(l, GroupPool[k]) : l \in {m \in shorter : Len(m) = n - 1},
                                        k \in 1 .. Len(GroupPool)}

DistinctIds(l) == \A i, j \in 1 .. Len(l) : l[i].id = l[j].id => i = j

\* The similarityThreshold values: the default 0.75, the former 0.55 and
\* one no score reaches.
Thresholds == {7500, 5500, Unit + 100}
\* The colorThreshold values of findColorSimilarMasks, in percent: the
\* default 0.85 and 1.
ColorThresholds == {85, 100}
\* The angleTolerance values: the defaults of findSimilarMasks and of
\* groupMasksByNormal.
AngleTolerances == {25, 30}

\* A region of an image of the given width.
RegionOf(width, id, pxs, normal) ==
    [id |-> id, pixelIndices |-> pxs,
     bounds |-> computeBoundingBox(pxs, width),
     avgNormal |-> normal, pixelCount |-> Len(pxs)]

\* A one-row image of one colour, its seed at pixel 0 and one single-pixel
\* region at every pixel farther from the seed than 30% of the diagonal.
WideImage ==
    [width |-> WideWidth, height |-> 1,
     data |-> [p \in 1 .. WideWidth |-> <<100, 100, 100>>]]
WideFirst == (3 * WideWidth) \div 10 + 1
WideSeed == RegionOf(WideWidth, 0, <<0>>, NormalFront)
WideFar(n) ==
    [i \in 1 .. n |->
        RegionOf(WideWidth, WideFirst + i - 1, <<WideFirst + i - 1>>, NormalFront)]
WideLists ==
    UNION {{WideFar(n), <<WideSeed>> \o WideFar(n), WideFar(n) \o <<WideSeed>>} :
           n \in 0 .. WideWidth - WideFirst}

\* The elbow scenario: a one-row image, a black seed at pixel 0 and nine
\* single-pixel grey candidates from pixel offset on, whose colour
\* similarities to the seed are 0.95, 0.93, 0.90, 0.89, 0.60, 0.55, 0.50,
\* 0.40 and 0.30 to two decimals.
ElbowGreys == <<13, 18, 25, 28, 102, 115, 128, 153, 179>>
ElbowOffsets == {1, 5}
ElbowImage(offset) ==
    [width |-> ElbowWidth, height |-> 1,
     data |-> [p \in 1 .. ElbowWidth |->
        IF p = 1 THEN <<0, 0, 0>>
        ELSE IF p - 1 >= offset /\ p - 1 < offset + Len(ElbowGreys)
        THEN LET g == ElbowGreys[p - offset] IN <<g, g, g>>
        ELSE <<255, 255, 255>>]]
ElbowSeed == RegionOf(ElbowWidth, 0, <<0>>, NormalFront)
\* The nine candidates; normals gives the normals of the first four.
ElbowCandidates(offset, normals) ==
    [k \in 1 .. Len(ElbowGreys) |->
        RegionOf(ElbowWidth, k, <<offset + k - 1>>,
                 IF k <= Len(normals) THEN normals[k] ELSE NormalFront)]
ElbowLists(offset) ==
    UNION {{ElbowCandidates(offset, normals),
            <<ElbowSeed>> \o ElbowCandidates(offset, normals)} :
           normals \in [1 .. 4 -> {NormalFront, NormalSide}]}

InitSegIdle ==
    /\ imageSetId = "1"
    /\ edgeData = [width |-> 0, height |-> 0, data |-> <<>>]
    /\ normalData = [width |-> 0, height |-> 0, data |-> <<>>]
    /\ minMaskSize = 1
    /\ maxFloodFillStack = 1
    /\ pc = "idle"
    /\ visited = <<>>
    /\ masks = <<>>
    /\ maskId = 0
    /\ sx = 0
    /\ sy = 0
    /\ stack = <<>>
    /\ pixels = <<>>
    /\ runs = <<>>
    /\ status = "idle"
    /\ imagesDone = 0
    /\ lookupCache = [id \in {} |-> Null]
    /\ pixelLookup = Null
    /\ hit = Null

\* The inputs of a clustering call: regions of GroupImage, of WideImage or
\* of the elbow scenario.
PoolInputs ==
    /\ maskData = GroupImage
    /\ seedMask \in Range(GroupPool)
    /\ allMasks \in {l \in MaskLists(MaxGroup) : DistinctIds(l)}
    /\ useImageData \in BOOLEAN
    /\ similarityThreshold \in Thresholds

WideInputs ==
    /\ maskData = WideImage
    /\ seedMask = WideSeed
    /\ allMasks \in WideLists
    /\ useImageData \in BOOLEAN
    /\ similarityThreshold \in Thresholds

ElbowInputs ==
    \E offset \in ElbowOffsets :
        /\ maskData = ElbowImage(offset)
        /\ seedMask = ElbowSeed
        /\ allMasks \in ElbowLists(offset)
        /\ useImageData = TRUE
        /\ similarityThreshold = 7500

InitGroup ==
    /\ InitSegIdle
    /\ PoolInputs \/ WideInputs \/ ElbowInputs
    /\ groupResult = Null
    /\ colorSimilar = Null
    /\ normalSimilar = Null
    /\ pairScore = Null
    /\ normalGroups = Null
    /\ InitColorIdle
    /\ InitVisualizerIdle

\* A click with smart grouping: findSmartGroup(seedMask, allMasks, maskData,
\* imageData, similarityThreshold).
FindSmartGroup ==
    /\ groupResult = Null
    /\ seedMask # Null
    /\ groupResult' = [list |-> findSmartGroup(seedMask, allMasks, maskData,
                                               useImageData, similarityThreshold)]
    /\ UNCHANGED <<seedMask, allMasks, useImageData, similarityThreshold,
                   maskData, colorSimilar, normalSimilar, pairScore,
                   normalGroups>>
    /\ UNCHANGED <<segVars, useVars, colVars, uiVars>>

\* A click selecting the same-coloured regions: findColorSimilarMasks(
\* seedMask, allMasks, width, imageData, colorThreshold).
FindColorSimilarMasks ==
    /\ colorSimilar = Null
    /\ seedMask # Null
    /\ \E colorThreshold \in ColorThresholds :
          colorSimilar' =
              [colorThreshold |-> colorThreshold,
               list |-> findColorSimilarMasks(seedMask, allMasks, maskData,
                                              useImageData, colorThreshold)]
    /\ UNCHANGED <<seedMask, allMasks, useImageData, similarityThreshold,
                   maskData, groupResult, normalSimilar, pairScore,
                   normalGroups>>
    /\ UNCHANGED <<segVars, useVars, colVars, uiVars>>

\* A shift-click (PaintVisualizer.tsx line 393): findSimilarMasks(seedMask,
\* allMasks, angleTolerance).
FindSimilarMasks ==
    /\ normalSimilar = Null
    /\ seedMask # Null
    /\ \E angleTolerance \in AngleTolerances :
          normalSimilar' =
              [angleTolerance |-> angleTolerance,
               list |-> findSimilarMasks(seedMask, allMasks, angleTolerance)]
    /\ UNCHANGED <<seedMask, allMasks, useImageData, similarityThreshold,
                   maskData, groupResult, colorSimilar, pairScore,
                   normalGroups>>
    /\ UNCHANGED <<segVars, useVars, colVars, uiVars>>

NextGroup == FindSmartGroup \/ FindColorSimilarMasks \/ FindSimilarMasks

SpecGroup == InitGroup /\ [][NextGroup]_vars

\* ------------------------------------------------- calculateSimilarity
\* Feature vectors: those of the five regions of GroupImage, and the same
\* with area 0.
FeatureSamples ==
    LET fs == {extractMaskFeatures(GroupPool[k], GroupImage, TRUE) :
               k \in 1 .. Len(GroupPool)}
    IN  fs \cup {[f EXCEPT !.area = 0] : f \in fs}
ImageSizes == {<<4, 2>>, <<1, 1>>}

InitSimilarity == InitSegIdle /\ InitUse

\* calculateSimilarity(a, b, ...) and calculateSimilarity(b, a, ...).
CalculateSimilarity ==
    /\ pairScore = Null
    /\ \E a \in FeatureSamples, b \in FeatureSamples, size \in ImageSizes,
          weights \in {defaultWeights, strictWeights} :
          pairScore' =
              [a |-> a, b |-> b, size |-> size, weights |-> weights,
               ab |-> calculateSimilarity(a, b, size[1], size[2], weights),
               ba |-> calculateSimilarity(b, a, size[1], size[2], weights)]
    /\ UNCHANGED <<seedMask, allMasks, useImageData, similarityThreshold,
                   maskData, groupResult, colorSimilar, normalSimilar,
                   normalGroups>>
    /\ UNCHANGED <<segVars, useVars, colVars, uiVars>>

NextSimilarity == CalculateSimilarity

SpecSimilarity == InitSimilarity /\ [][NextSimilarity]_vars

\* --------------------------------------------------- groupMasksByNormal
\* An inner loop that does not skip regions already assigned.
RECURSIVE InnerLoopNoSkip(_, _, _, _, _)
InnerLoopNoSkip(list, leaderNormal, j, angleTolerance, acc) ==
    IF j > Len(list) THEN acc
    ELSE IF WithinTolerance(leaderNormal, list[j].avgNormal, angleTolerance)
    THEN InnerLoopNoSkip(list, leaderNormal, j + 1, angleTolerance,
            [group |-> Append(acc.group, list[j].id),
             assigned |-> acc.assigned \cup {list[j].id}])
    ELSE InnerLoopNoSkip(list, leaderNormal, j + 1, angleTolerance, acc)

\* The inner loop (maskGenerator.ts lines 298-310); j counts from 1, acc
\* holds group and assigned.
RECURSIVE InnerLoop(_, _, _, _, _)
InnerLoop(list, leaderNormal, j, angleTolerance, acc) ==
    IF j > Len(list) THEN acc
    ELSE IF list[j].id \in acc.assigned
    THEN InnerLoop(list, leaderNormal, j + 1, angleTolerance, acc)
    ELSE IF WithinTolerance(leaderNormal, list[j].avgNormal, angleTolerance)
    THEN InnerLoop(list, leaderNormal, j + 1, angleTolerance,
            [group |-> Append(acc.group, list[j].id),
             assigned |-> acc.assigned \cup {list[j].id}])
    ELSE InnerLoop(list, leaderNormal, j + 1, angleTolerance, acc)

\* The outer loop (lines 289-313); groups is the Map in insertion order.
RECURSIVE OuterLoop(_, _, _, _)
OuterLoop(list, i, angleTolerance, acc) ==
    IF i > Len(list) THEN acc.groups
    ELSE IF list[i].id \in acc.assigned
    THEN OuterLoop(list, i + 1, angleTolerance, acc)
    ELSE LET inner == InnerLoop(list, list[i].avgNormal, i + 1, angleTolerance,
                                [group |-> <<list[i].id>>,
                                 assigned |-> acc.assigned \cup {list[i].id}])
         IN  OuterLoop(list, i + 1, angleTolerance,
                [groups |-> Append(acc.groups,
                                   [key |-> list[i].id, members |-> inner.group]),
                 assigned |-> inner.assigned])

\* groupMasksByNormal (lines 278-316).
groupMasksByNormal(list, angleTolerance) ==
    OuterLoop(list, 1, angleTolerance, [groups |-> <<>>, assigned |-> {}])

\* The regions groupMasksByNormal is given: five regions of GroupImage with
\* four different normals.
NormalPool ==
    << RegionOf(4, 0, <<0>>, NormalFront),
       RegionOf(4, 1, <<1>>, NormalTilt),
       RegionOf(4, 2, <<2>>, NormalLean),
       RegionOf(4, 3, <<3>>, NormalSide),
       RegionOf(4, 4, <<4>>, NormalFront) >>

RECURSIVE NormalLists(_)
NormalLists(n) ==
    IF n = 0 THEN {<<>>}
    ELSE LET shorter == NormalLists(n - 1)
         IN  shorter \cup
             {Append(l, NormalPool[k]) : l \in {m \in shorter : Len(m) = n - 1},
                                         k \in 1 .. Len(NormalPool)}

InitNormalGroups == InitSegIdle /\ InitUse

GroupMasksByNormal ==
    /\ normalGroups = Null
    /\ \E list \in {l \in NormalLists(MaxNormalList) : DistinctIds(l)},
          angleTolerance \in AngleTolerances :
          normalGroups' =
              [masks |-> list, angleTolerance |-> angleTolerance,
               groups |-> groupMasksByNormal(list, angleTolerance)]
    /\ UNCHANGED <<seedMask, allMasks, useImageData, similarityThreshold,
                   maskData, groupResult, colorSimilar, normalSimilar,
                   pairScore>>
    /\ UNCHANGED <<segVars, useVars, colVars, uiVars>>

NextNormalGroups == GroupMasksByNormal

SpecNormalGroups == InitNormalGroups /\ [][NextNormalGroups]_vars

\* -------------------------------------------------------- paint blending
\* A quotient of fixed-point numbers, rounded to the nearest unit.
Scale(n, d) == IF n >= 0 THEN MathRound(n, d) ELSE -MathRound(-n, d)

\* rgbToHsl of integer channels: h in thousandths of a degree, s and l in
\* 1/Unit. l > 0.5 exactly when max + min > 255.
rgbToHsl(r, g, b) ==
    LET max == Max(r, Max(g, b))
        min == Min(r, Min(g, b))
        l == MathRound((max + min) * Unit, 2 * 255)
        d == max - min
    IN  IF max = min THEN [h |-> 0, s |-> 0, l |-> l]
        ELSE [h |-> IF max = r
                    THEN Scale(60 * Degree * (g - b), d)
                         + (IF g < b THEN 360 * Degree ELSE 0)
                    ELSE IF max = g
                    THEN Scale(60 * Degree * (b - r), d) + 120 * Degree
                    ELSE Scale(60 * Degree * (r - g), d) + 240 * Degree,
              s |-> IF max + min > 255
                    THEN MathRound(d * Unit, 2 * 255 - max - min)
                    ELSE MathRound(d * Unit, max + min),
              l |-> l]

\* hermite(t) = t * t * (3 - 2 * t), for t in [0, 1].
hermite(t) == MathRound(MathRound(t * t, Unit) * (3 * Unit - 2 * t), Unit)

\* smoothstep: hermite of the clamped position of x between the edges.
smoothstep(edge0, edge1, x) ==
    hermite(Max(0, Min(Unit, Scale((x - edge0) * Unit, edge1 - edge0))))

\* 1 / (1 + exp(-z)) at z = -2.5, -2.25, ..., 2.5.
LogisticTable ==
    <<759, 953, 1192, 1480, 1824, 2227, 2689, 3208, 3775, 4378, 5000,
      5622, 6225, 6792, 7311, 7773, 8176, 8520, 8808, 9047, 9241>>

\* softSigmoid(x, center, steepness): the table, interpolated linearly.
softSigmoid(x, center, steepness) ==
    LET z == Max(0, Min(5 * Unit, steepness * (x - center) + (5 * Unit) \div 2))
        k == z \div (Unit \div 4)
        rest == z % (Unit \div 4)
    IN  IF k + 2 > Len(LogisticTable) THEN LogisticTable[Len(LogisticTable)]
        ELSE LogisticTable[k + 1]
             + Scale((LogisticTable[k + 2] - LogisticTable[k + 1]) * rest,
                     Unit \div 4)

\* A clamp that only keeps the lightness off pure black.
ClampLightnessBelow(l) == Max(200, l)

\* Math.min(0.98, Math.max(0.02, resultL)) of lines 151 and 203.
ClampLightness(l) == Min(9800, Max(200, l))

\* Lines 141-151 of applyPaintColor: the result lightness before lighting.
BlendLightness(baseHsl, paintHsl) ==
    LET lumDelta == baseHsl.l - Unit \div 2
        smoothedDelta == Scale(lumDelta * hermite(2 * Abs(lumDelta)), Unit)
        resultL == paintHsl.l + Scale(smoothedDelta * 45, 100)
    IN  ClampLightness(
            IF resultL > 9000
            THEN 9000 + Scale(smoothstep(9000, Unit, resultL) * 8, 100)
            ELSE IF resultL < 1000
            THEN 1000 - Scale(smoothstep(0, 1000, Unit - resultL) * 8, 100)
            ELSE resultL)

\* Lines 155-162: the result saturation before lighting.
BlendSaturation(baseHsl, paintHsl) ==
    LET own == Scale(paintHsl.s * 85, 100)
        textured == Scale(paintHsl.s * (8000 + Scale(baseHsl.s * 4, 10)), Unit)
    IN  Min(Unit, Scale((own + Scale(textured * 15, 100)) * 108, 100))

\* Lines 166-180: the paint's hue, nudged towards a coloured base's hue.
BlendHue(baseHsl, paintHsl) ==
    IF baseHsl.s > 1000
    THEN LET raw == baseHsl.h - paintHsl.h
             hueDiff == IF raw > 180 * Degree THEN raw - 360 * Degree
                        ELSE IF raw < -(180 * Degree) THEN raw + 360 * Degree
                        ELSE raw
             hueInfluence == Scale(3 * baseHsl.s, 100)
             resultH == paintHsl.h + Scale(hueDiff * hueInfluence, Unit)
         IN  IF resultH < 0 THEN resultH + 360 * Degree
             ELSE IF resultH >= 360 * Degree THEN resultH - 360 * Degree
             ELSE resultH
    ELSE paintHsl.h

\* Lines 184-200: the lighting factor of a normal sample, under the light
\* direction (0.1, -0.2, 0.97).
LightingFactor(normalPixel) ==
    LET nx == Scale(normalPixel[1] * 2 * Unit, 255) - Unit
        ny == Scale(normalPixel[2] * 2 * Unit, 255) - Unit
        nz == Scale(normalPixel[3] * Unit, 255)
        dot == Scale(nx * 10 - ny * 20 + nz * 97, 100)
    IN  8000 + Scale(softSigmoid(dot, Unit \div 2, 3) * 35, 100)

\* The normalPixel argument of a caller that passes none.
NoNormal == <<>>

\* The hue, saturation and lightness applyPaintColor hands to hslToRgb.
applyPaintHsl(basePixel, paintColor, normalPixel) ==
    LET baseHsl == rgbToHsl(basePixel[1], basePixel[2], basePixel[3])
        paintHsl == rgbToHsl(paintColor[1], paintColor[2], paintColor[3])
        resultL == BlendLightness(baseHsl, paintHsl)
        resultS == BlendSaturation(baseHsl, paintHsl)
        resultH == BlendHue(baseHsl, paintHsl)
    IN  IF normalPixel = NoNormal
        THEN [h |-> resultH, s |-> resultS, l |-> resultL]
        ELSE LET lightingFactor == LightingFactor(normalPixel)
                 lightDeviation == Abs(lightingFactor - Unit)
             IN  [h |-> resultH,
                  s |-> Scale(resultS * (Unit - Scale(lightDeviation * 15, 100)),
                              Unit),
                  l |-> ClampLightness(Scale(resultL * lightingFactor, Unit))]

applyPaintColor(basePixel, paintColor, normalPixel) ==
    LET hsl == applyPaintHsl(basePixel, paintColor, normalPixel)
    IN  hslToRgb(hsl.h, hsl.s, hsl.l)

\* Base pixels: black, white, a grey and the palette's coral.
BaseSamples ==
    {<<0, 0, 0>>, <<255, 255, 255>>, <<180, 180, 180>>, <<224, 80, 64>>}

\* Paints: the base pixels and two reds of one hue and saturation.
PaintSamples == BaseSamples \cup {<<255, 0, 0>>, <<128, 0, 0>>}

\* Normal samples: none, facing the camera, and the samples that face the
\* light most and least.
NormalSamples == {NoNormal, NormalFront, <<255, 0, 255>>, <<0, 255, 0>>}

\* One call of applyPaintColor, with what it handed to hslToRgb.
PaintCall(basePixel, paintColor, normalPixel) ==
    [basePixel |-> basePixel, paintColor |-> paintColor,
     normalPixel |-> normalPixel,
     hsl |-> applyPaintHsl(basePixel, paintColor, normalPixel),
     result |-> applyPaintColor(basePixel, paintColor, normalPixel)]

SameArguments(a, b) ==
    /\ a.basePixel = b.basePixel
    /\ a.paintColor = b.paintColor
    /\ a.normalPixel = b.normalPixel

InitPaint == InitSegIdle /\ InitUse

\* A caller applies a paint to a pixel. The first call made stays on
\* record, next to the latest one and to whether a call with other
\* arguments has been made since the first.
ApplyPaintColor ==
    /\ \E basePixel \in BaseSamples, paintColor \in PaintSamples,
          normalPixel \in NormalSamples :
         LET call == PaintCall(basePixel, paintColor, normalPixel)
         IN  painted' = IF painted = Null
                        THEN [first |-> call, last |-> call,
                              interleaved |-> FALSE]
                        ELSE [first |-> painted.first, last |-> call,
                              interleaved |->
                                  \/ painted.interleaved
                                  \/ ~SameArguments(call, painted.first)]
    /\ UNCHANGED <<roundTrip, edgeDistances>>
    /\ UNCHANGED <<segVars, useVars, grpVars, uiVars>>

NextPaint == ApplyPaintColor

SpecPaint == InitPaint /\ [][NextPaint]_vars

\* ------------------------------------------------------- HSL round trip
\* Hues, saturations and lightnesses fed to hslToRgb, and channels fed to
\* rgbToHsl first. 40 is 0.004 and 9960 is 0.996: nearly black and white.
HueSamples == {0, 30 * Degree, 100 * Degree, 200 * Degree, 360 * Degree - 1}
SaturationSamples == {0, 100, 5000, Unit}
LightnessSamples == {0, 40, 3000, 5000, 9960, Unit}
ChannelSamples == {0, 1, 64, 128, 200, 255}

\* rgbToHsl(hslToRgb(h, s, l)), with the channels in between.
RoundTripOf(hsl, fromChannels) ==
    LET rgb == hslToRgb(hsl.h, hsl.s, hsl.l)
    IN  [hsl |-> hsl, fromChannels |-> fromChannels, rgb |-> rgb,
         back |-> rgbToHsl(rgb[1], rgb[2], rgb[3])]

InitRoundTrip == InitSegIdle /\ InitUse

\* A caller converts an (h, s, l), either any one or the rgbToHsl of
\* integer channels, to channels and back.
HslRoundTrip ==
    /\ \/ \E h \in HueSamples, sat \in SaturationSamples,
             l \in LightnessSamples :
            roundTrip' = RoundTripOf([h |-> h, s |-> sat, l |-> l], FALSE)
       \/ \E r \in ChannelSamples, g \in ChannelSamples,
             b \in ChannelSamples :
            roundTrip' = RoundTripOf(rgbToHsl(r, g, b), TRUE)
    /\ UNCHANGED <<painted, edgeDistances>>
    /\ UNCHANGED <<segVars, useVars, grpVars, uiVars>>

NextRoundTrip == HslRoundTrip

SpecRoundTrip == InitRoundTrip /\ [][NextRoundTrip]_vars

\* -------------------------------------------------------- edge feathering
\* Lines 316-326 without the image-bounds branch.
FadesInsideOnly(nx, ny, width, height, paintedSet) ==
    /\ ~(nx < 0 \/ nx >= width \/ ny < 0 \/ ny >= height)
    /\ (ny * width + nx) \notin paintedSet

\* Lines 316-326: the neighbour lowers minDist when it is outside the image
\* or not in paintedSet.
Fades(nx, ny, width, height, paintedSet) ==
    \/ nx < 0 \/ nx >= width \/ ny < 0 \/ ny >= height
    \/ (ny * width + nx) \notin paintedSet

\* The offsets the two loops do not skip: not (0, 0), and no farther than
\* maxDistance.
FeatherOffsets(maxDistance) ==
    {o \in ((-maxDistance) .. maxDistance) \X ((-maxDistance) .. maxDistance) :
        /\ o # <<0, 0>>
        /\ o[1] * o[1] + o[2] * o[2] <= maxDistance * maxDistance}

\* minDist / maxDistance in 1/Unit, from the square of minDist; the square
\* root is taken to a hundredth of a pixel.
NormalizedDistance(distSq, maxDistance) ==
    (ISqrt(distSq * Unit) * 100) \div maxDistance

\* computeEdgeDistances: the Map from each pixel of the region to its
\* normalized distance. allPaintedPixels is Null or [set |-> ...]. The
\* smallest distance is found as the smallest squared distance.
computeEdgeDistances(pixelIndices, width, height, maxDistance, allPaintedPixels) ==
    LET paintedSet == IF allPaintedPixels = Null THEN Range(pixelIndices)
                      ELSE allPaintedPixels.set
        minDistSq(pixelIdx) ==
            LET x == pixelIdx % width
                y == pixelIdx \div width
                found == {o[1] * o[1] + o[2] * o[2] :
                            o \in {q \in FeatherOffsets(maxDistance) :
                                     Fades(x + q[1], y + q[2], width, height,
                                           paintedSet)}}
            IN  IF found = {} THEN maxDistance * maxDistance
                ELSE CHOOSE d \in found : \A e \in found : d <= e
    IN  [pixelIdx \in Range(pixelIndices) |->
            NormalizedDistance(minDistSq(pixelIdx), maxDistance)]

\* The image whose regions are feathered: 3 x 3, so that it has a pixel
\* with no neighbour outside the image.
FeatherWidth == 3
FeatherHeight == 3
FeatherPixels == 0 .. (FeatherWidth * FeatherHeight - 1)

\* The pixels of a region, ascending.
RECURSIVE AscendingList(_)
AscendingList(S) ==
    IF S = {} THEN <<>>
    ELSE LET least == CHOOSE a \in S : \A b \in S : a <= b
         IN  <<least>> \o AscendingList(S \ {least})

InitEdgeDistances == InitSegIdle /\ InitUse

\* A caller computes the edge distances of a region, without
\* allPaintedPixels or with any set of pixels for it.
ComputeEdgeDistances ==
    /\ edgeDistances = Null
    /\ \E region \in SUBSET FeatherPixels, maxDistance \in 1 .. MaxRadius,
          allPaintedPixels \in
              {Null} \cup {[set |-> S] : S \in SUBSET FeatherPixels} :
         /\ region # {}
         /\ Cardinality(region) <= MaxFeatherPixels
         /\ edgeDistances' =
                [pixelIndices |-> AscendingList(region),
                 maxDistance |-> maxDistance,
                 allPaintedPixels |-> allPaintedPixels,
                 result |-> computeEdgeDistances(AscendingList(region),
                                FeatherWidth, FeatherHeight, maxDistance,
                                allPaintedPixels)]
    /\ UNCHANGED <<painted, roundTrip>>
    /\ UNCHANGED <<segVars, useVars, grpVars, uiVars>>

NextEdgeDistances == ComputeEdgeDistances

SpecEdgeDistances == InitEdgeDistances /\ [][NextEdgeDistances]_vars

\* ---------------------------------------------------------- the visualizer
\* components/PaintVisualizer.tsx, lines 1-742: the component that loads its
\* data with usePaintData and keeps its state in localStorage.

\* The first two paints of PAINT_PALETTE (lib/types.ts).
PAINT_PALETTE == <<"#E05040", "#C75B39">>

\* What /masks/masks-<id>.json holds for the two image sets: a row of three
\* pixels. Set 1 has two regions of one orientation around an edge pixel;
\* set 2 has one region and a pixel of no region.
SetMaskData(id) ==
    IF id = "1"
    THEN [imageSetId |-> "1", width |-> 3, height |-> 1,
          masks |-> <<RegionOf(3, 0, <<0>>, NormalFront),
                      RegionOf(3, 1, <<2>>, NormalFront)>>]
    ELSE [imageSetId |-> id, width |-> 3, height |-> 1,
          masks |-> <<RegionOf(3, 0, <<0, 1>>, NormalFront)>>]

\* usePaintData's initial state (lines 47-54).
InitialPaintData ==
    [maskData |-> Null, pixelLookup |-> Null, cleanedImage |-> Null,
     normalImage |-> Null, isLoading |-> TRUE, error |-> Null]

\* The state usePaintData sets when a load resolves (lines 74-83). The
\* lookup buildPixelLookup returns is the array of the set's MaskData.
LoadedPaintData(setId) ==
    [maskData |-> SetMaskData(setId),
     pixelLookup |-> [array |-> BuildLookupArray(SetMaskData(setId))],
     cleanedImage |-> [src |-> setId], normalImage |-> [src |-> setId],
     isLoading |-> FALSE, error |-> Null]

\* The effect of usePaintData for a new setId (lines 56-98): the cleanup of
\* the previous run clears its isMounted, then load() starts.
StartLoad(inFlight, setId) ==
    [i \in 1 .. Len(inFlight) |-> [inFlight[i] EXCEPT !.isMounted = FALSE]]
        \o <<[setId |-> setId, isMounted |-> TRUE]>>

RemoveAt(seq, i) == SubSeq(seq, 1, i - 1) \o SubSeq(seq, i + 1, Len(seq))

EmptyMap == [id \in {} |-> ""]

\* new Map(prev).set(id, value), and new Set(prev) with ids added.
MapSet(prev, id, value) ==
    [k \in DOMAIN prev \cup {id} |-> IF k = id THEN value ELSE prev[k]]

RECURSIVE MapSetAll(_, _, _)
MapSetAll(prev, ids, value) ==
    IF ids = {} THEN prev
    ELSE LET id == CHOOSE k \in ids : TRUE
         IN  MapSetAll(MapSet(prev, id, value), ids \ {id}, value)

\* A shift+click that forgets the regions painted before.
PaintRegionOnly(prev, id, color) == [k \in {id} |-> color]

\* Line 386: prev => new Map(prev).set(mask.id, activePaintColor).
PaintRegion(prev, id, color) == MapSet(prev, id, color)

\* The item the save effect writes (lines 265-270): JSON of currentSetId,
\* activePaintColor and the entries of appliedColors.
SavedState(setId, color, applied) ==
    [currentSetId |-> setId, activePaintColor |-> color,
     appliedColors |-> {<<id, applied[id]>> : id \in DOMAIN applied}]

\* new Map(data.appliedColors) of line 250.
RestoredColors(entries) ==
    [id \in {e[1] : e \in entries} |->
        (CHOOSE e \in entries : e[1] = id)[2]]

\* What a click is remembered by: the state it found.
Snapshot ==
    [currentSetId |-> currentSetId, selectedMaskIds |-> selectedMaskIds,
     appliedColors |-> appliedColors, viewMode |-> viewMode,
     activePaintColor |-> activePaintColor, paintData |-> paintData,
     loads |-> loads, localStorage |-> localStorage]

NoOrigin == [selected |-> EmptyMap, applied |-> EmptyMap]

\* The state after the first render and its effects, with nothing stored:
\* the load of IMAGE_SETS[0] is in flight.
InitVisualizer ==
    /\ InitSegIdle
    /\ InitLibraryIdle
    /\ currentSetId = "1"
    /\ selectedMaskIds = {}
    /\ appliedColors = EmptyMap
    /\ viewMode = "normal"
    /\ activePaintColor = PAINT_PALETTE[1]
    /\ paintData = InitialPaintData
    /\ loads = <<[setId |-> "1", isMounted |-> TRUE]>>
    /\ maskCache = {}
    /\ localStorage = Null
    /\ lastClick = Null
    /\ origin = NoOrigin
    /\ beforeReload = Null

\* handleSetChange (lines 277-282) and the effects of the render it causes:
\* usePaintData reloads and the save effect writes the item.
HandleSetChange ==
    /\ Len(loads) < MaxLoads
    /\ \E newId \in IMAGE_SETS \ {currentSetId} :
         /\ currentSetId' = newId
         /\ loads' = StartLoad(loads, newId)
         /\ localStorage' = SavedState(newId, activePaintColor, EmptyMap)
    /\ selectedMaskIds' = {}
    /\ appliedColors' = EmptyMap
    /\ paintData' = [paintData EXCEPT !.isLoading = TRUE, !.error = Null]
    /\ lastClick' = Null
    /\ origin' = NoOrigin
    /\ beforeReload' = Null
    /\ UNCHANGED <<viewMode, activePaintColor, maskCache>>
    /\ UNCHANGED <<segVars, useVars, grpVars, colVars>>

\* The Promise.all of a load resolves (lines 66-83): loadMaskData has
\* cached the set, and the state is set unless the run was cleaned up.
LoadResolved ==
    /\ \E i \in 1 .. Len(loads) :
         /\ loads' = RemoveAt(loads, i)
         /\ maskCache' = maskCache \cup {loads[i].setId}
         /\ paintData' = IF loads[i].isMounted
                         THEN LoadedPaintData(loads[i].setId)
                         ELSE paintData
    /\ lastClick' = Null
    /\ UNCHANGED <<currentSetId, selectedMaskIds, appliedColors, viewMode,
                   activePaintColor, localStorage, origin, beforeReload>>
    /\ UNCHANGED <<segVars, useVars, grpVars, colVars>>

\* The Promise.all of a load rejects (lines 84-92): the masks may or may
\* not have been fetched, and the data of the previous set stays in state.
LoadRejected ==
    /\ \E i \in 1 .. Len(loads) :
         /\ loads' = RemoveAt(loads, i)
         /\ maskCache' \in {maskCache, maskCache \cup {loads[i].setId}}
         /\ paintData' = IF loads[i].isMounted
                         THEN [paintData EXCEPT
                                  !.isLoading = FALSE,
                                  !.error = [message |-> "Failed to load data"]]
                         ELSE paintData
    /\ lastClick' = Null
    /\ UNCHANGED <<currentSetId, selectedMaskIds, appliedColors, viewMode,
                   activePaintColor, localStorage, origin, beforeReload>>
    /\ UNCHANGED <<segVars, useVars, grpVars, colVars>>

\* handleCanvasClick (lines 373-401) at canvas pixel (x, y), and the save
\* effect when appliedColors changed.
HandleCanvasClick ==
    /\ paintData.maskData # Null
    /\ paintData.pixelLookup # Null
    /\ \E x \in (-1) .. 3, y \in 0 .. 1, shiftKey \in BOOLEAN,
          altKey \in BOOLEAN :
         LET mask == findMaskAtPoint(x, y, paintData.maskData,
                                     paintData.pixelLookup.array)
             hitSet == paintData.maskData.imageSetId
             similar == {m.id : m \in Range(
                            findSimilarMasks(mask, paintData.maskData.masks, 25))}
         IN  /\ lastClick' = [shiftKey |-> shiftKey,
                              mask |-> IF mask = Null THEN NoMask ELSE mask.id,
                              before |-> Snapshot]
             /\ IF mask = Null
                THEN UNCHANGED <<selectedMaskIds, appliedColors,
                                 localStorage, origin>>
                ELSE IF shiftKey
                THEN /\ appliedColors' =
                           PaintRegion(appliedColors, mask.id, activePaintColor)
                     /\ localStorage' =
                           SavedState(currentSetId, activePaintColor,
                                      appliedColors')
                     /\ origin' = [origin EXCEPT !.applied =
                                      MapSet(origin.applied, mask.id, hitSet)]
                     /\ UNCHANGED selectedMaskIds
                ELSE IF altKey
                THEN /\ selectedMaskIds' = selectedMaskIds \cup similar
                     /\ origin' = [origin EXCEPT !.selected =
                                      MapSetAll(origin.selected, similar, hitSet)]
                     /\ UNCHANGED <<appliedColors, localStorage>>
                ELSE /\ selectedMaskIds' = {mask.id}
                     /\ origin' = [origin EXCEPT !.selected =
                                      MapSet(EmptyMap, mask.id, hitSet)]
                     /\ UNCHANGED <<appliedColors, localStorage>>
    /\ beforeReload' = Null
    /\ UNCHANGED <<currentSetId, viewMode, activePaintColor, paintData, loads,
                   maskCache>>
    /\ UNCHANGED <<segVars, useVars, grpVars, colVars>>

\* applyColorToSelection (lines 403-411) and the save effect.
ApplyColorToSelection ==
    /\ selectedMaskIds # {}
    /\ appliedColors' = MapSetAll(appliedColors, selectedMaskIds,
                                  activePaintColor)
    /\ selectedMaskIds' = {}
    /\ localStorage' = SavedState(currentSetId, activePaintColor,
                                  appliedColors')
    /\ origin' = [selected |-> EmptyMap,
                  applied |-> [id \in DOMAIN appliedColors' |->
                                 IF id \in selectedMaskIds
                                 THEN origin.selected[id]
                                 ELSE origin.applied[id]]]
    /\ lastClick' = Null
    /\ beforeReload' = Null
    /\ UNCHANGED <<currentSetId, viewMode, activePaintColor, paintData, loads,
                   maskCache>>
    /\ UNCHANGED <<segVars, useVars, grpVars, colVars>>

\* clearColors (lines 413-416) and the save effect.
ClearColors ==
    /\ appliedColors # EmptyMap \/ selectedMaskIds # {}
    /\ appliedColors' = EmptyMap
    /\ selectedMaskIds' = {}
    /\ localStorage' = SavedState(currentSetId, activePaintColor, EmptyMap)
    /\ origin' = NoOrigin
    /\ lastClick' = Null
    /\ beforeReload' = Null
    /\ UNCHANGED <<currentSetId, viewMode, activePaintColor, paintData, loads,
                   maskCache>>
    /\ UNCHANGED <<segVars, useVars, grpVars, colVars>>

\* A palette button (line 620) and the save effect.
SetActivePaintColor ==
    /\ \E i \in 1 .. Len(PAINT_PALETTE) :
         /\ PAINT_PALETTE[i] # activePaintColor
         /\ activePaintColor' = PAINT_PALETTE[i]
         /\ localStorage' = SavedState(currentSetId, PAINT_PALETTE[i],
                                       appliedColors)
    /\ lastClick' = Null
    /\ beforeReload' = Null
    /\ UNCHANGED <<currentSetId, selectedMaskIds, appliedColors, viewMode,
                   paintData, loads, maskCache, origin>>
    /\ UNCHANGED <<segVars, useVars, grpVars, colVars>>

\* A view mode button (line 590).
SetViewMode ==
    /\ \E mode \in {"normal", "all-masks"} :
         /\ mode # viewMode
         /\ viewMode' = mode
    /\ lastClick' = Null
    /\ beforeReload' = Null
    /\ UNCHANGED <<currentSetId, selectedMaskIds, appliedColors,
                   activePaintColor, paintData, loads, maskCache,
                   localStorage, origin>>
    /\ UNCHANGED <<segVars, useVars, grpVars, colVars>>

\* The page is reloaded: the module state and the component state start
\* afresh and the item stays. The first render starts the load of
\* IMAGE_SETS[0]; the restore effect (lines 242-255) sets currentSetId,
\* activePaintColor and appliedColors from the item; the save effect skips
\* the first render and writes the restored state after the second, whose
\* usePaintData effect reloads when currentSetId changed.
Remount ==
    /\ beforeReload' = [currentSetId |-> currentSetId,
                        activePaintColor |-> activePaintColor,
                        appliedColors |-> appliedColors,
                        selectedMaskIds |-> selectedMaskIds]
    /\ selectedMaskIds' = {}
    /\ viewMode' = "normal"
    /\ paintData' = InitialPaintData
    /\ maskCache' = {}
    /\ lastClick' = Null
    /\ IF localStorage = Null
       THEN /\ currentSetId' = "1"
            /\ activePaintColor' = PAINT_PALETTE[1]
            /\ appliedColors' = EmptyMap
            /\ loads' = <<[setId |-> "1", isMounted |-> TRUE]>>
            /\ origin' = NoOrigin
       ELSE /\ currentSetId' = localStorage.currentSetId
            /\ activePaintColor' = localStorage.activePaintColor
            /\ appliedColors' = RestoredColors(localStorage.appliedColors)
            /\ loads' = IF localStorage.currentSetId = "1"
                        THEN <<[setId |-> "1", isMounted |-> TRUE]>>
                        ELSE StartLoad(<<[setId |-> "1", isMounted |-> TRUE]>>,
                                       localStorage.currentSetId)
            /\ origin' = [selected |-> EmptyMap,
                          applied |-> [id \in DOMAIN appliedColors' |->
                                         origin.applied[id]]]
    /\ UNCHANGED localStorage
    /\ UNCHANGED <<segVars, useVars, grpVars, colVars>>

NextVisualizer ==
    \/ HandleSetChange
    \/ LoadResolved
    \/ LoadRejected
    \/ HandleCanvasClick
    \/ ApplyColorToSelection
    \/ ClearColors
    \/ SetActivePaintColor
    \/ SetViewMode
    \/ Remount

SpecVisualizer == InitVisualizer /\ [][NextVisualizer]_vars

\* ------------------------------------------------- the visualizer's loadData
\* unnamed/part_002 (and, line for line, unnamed/part_001): the component
\* that loads its data in an effect of its own, loadData, lines 47-99.

\* The component after its first render: loadData runs for set '1'.
InitLoadData ==
    /\ InitSegIdle
    /\ InitLibraryIdle
    /\ currentSetId = "1"
    /\ selectedMaskIds = {}
    /\ appliedColors = EmptyMap
    /\ viewMode = "normal"
    /\ activePaintColor = PAINT_PALETTE[1]
    /\ paintData = InitialPaintData
    /\ loads = <<[setId |-> "1", stage |-> "masks"]>>
    /\ maskCache = {}
    /\ localStorage = Null
    /\ lastClick = Null
    /\ origin = NoOrigin
    /\ beforeReload = Null

\* The select's onChange (line 289) and the effect of the next render:
\* loadData starts with setIsLoading(true) and setError(null) and awaits
\* loadMaskData(currentSetId). The earlier calls of loadData go on.
SetCurrentSetId ==
    /\ Len(loads) < MaxLoads
    /\ \E newId \in IMAGE_SETS \ {currentSetId} :
         /\ currentSetId' = newId
         /\ loads' = Append(loads, [setId |-> newId, stage |-> "masks"])
    /\ paintData' = [paintData EXCEPT !.isLoading = TRUE, !.error = Null]
    /\ UNCHANGED <<selectedMaskIds, appliedColors, viewMode, activePaintColor,
                   maskCache, localStorage, lastClick, origin, beforeReload>>
    /\ UNCHANGED <<segVars, useVars, grpVars, colVars>>

\* The data a call of loadData stores when loadMaskData resolves: that of
\* the currentSetId the call was started with (line 54).
MasksLoaded(call) == SetMaskData(call.setId)

\* loadMaskData resolves (lines 54-59): setMaskData, setPixelLookup, and
\* the two images start to load.
MaskDataLoaded ==
    /\ \E i \in 1 .. Len(loads) :
         /\ loads[i].stage = "masks"
         /\ loads' = [loads EXCEPT ![i].stage = "images"]
         /\ maskCache' = maskCache \cup {loads[i].setId}
         /\ paintData' = [paintData EXCEPT
                             !.maskData = MasksLoaded(loads[i]),
                             !.pixelLookup =
                                 [array |-> BuildLookupArray(
                                                MasksLoaded(loads[i]))]]
    /\ UNCHANGED <<currentSetId, selectedMaskIds, appliedColors, viewMode,
                   activePaintColor, localStorage, lastClick, origin,
                   beforeReload>>
    /\ UNCHANGED <<segVars, useVars, grpVars, colVars>>

\* Both images load (lines 70-89): the images are stored, the selection and
\* the applied colours are cleared and isLoading is dropped.
ImagesLoaded ==
    /\ \E i \in 1 .. Len(loads) :
         /\ loads[i].stage = "images"
         /\ loads' = RemoveAt(loads, i)
         /\ paintData' = [paintData EXCEPT
                             !.cleanedImage = [src |-> loads[i].setId],
                             !.normalImage = [src |-> loads[i].setId],
                             !.isLoading = FALSE]
    /\ selectedMaskIds' = {}
    /\ appliedColors' = EmptyMap
    /\ UNCHANGED <<currentSetId, viewMode, activePaintColor, maskCache,
                   localStorage, lastClick, origin, beforeReload>>
    /\ UNCHANGED <<segVars, useVars, grpVars, colVars>>

\* The fetch of an uncached set or one of the images fails (lines 90-96).
LoadDataFailed ==
    /\ \E i \in 1 .. Len(loads) :
         /\ loads[i].stage = "masks" => loads[i].setId \notin maskCache
         /\ loads' = RemoveAt(loads, i)
    /\ paintData' = [paintData EXCEPT !.isLoading = FALSE,
                                      !.error =
                                 [message |-> "Failed to load image data"]]
    /\ UNCHANGED <<currentSetId, selectedMaskIds, appliedColors, viewMode,
                   activePaintColor, maskCache, localStorage, lastClick,
                   origin, beforeReload>>
    /\ UNCHANGED <<segVars, useVars, grpVars, colVars>>

NextLoadData ==
    \/ SetCurrentSetId
    \/ MaskDataLoaded
    \/ ImagesLoaded
    \/ LoadDataFailed

SpecLoadData == InitLoadData /\ [][NextLoadData]_vars

\* ================================================================ claims
IsEdge(a) == IsEdgePixel(edgeData, a % Width, a \div Width)
MaskPixels(m) == Range(m.pixelIndices)
Owners(a) == {i \in 1 .. Len(masks) : a \in MaskPixels(masks[i])}
\* How many times address a is listed in the pixelIndices of all regions.
Occurrences(a) ==
    Cardinality(UNION {{<<i, j>> : j \in {k \in 1 .. Len(masks[i].pixelIndices) :
                                            masks[i].pixelIndices[k] = a}} :
                       i \in 1 .. Len(masks)})
DiscardedRuns == {k \in 1 .. Len(runs) : ~runs[k].kept}
KeptRuns == {k \in 1 .. Len(runs) : runs[k].kept}
Discarded(a) == \E k \in DiscardedRuns : a \in Range(runs[k].pixels)
Count(b) == IF b THEN 1 ELSE 0

\* C1: when generateMasks has finished, every pixel address is in exactly
\* one class: listed exactly once in exactly one region, or an edge pixel,
\* or a member of a discarded run; no non-edge pixel is left unvisited.
C1_Partition ==
    pc = "done" =>
        /\ \A i \in 1 .. Len(masks) : MaskPixels(masks[i]) \subseteq Addresses
        /\ \A a \in Addresses :
            /\ Occurrences(a) <= 1
            /\ Cardinality(Owners(a)) <= 1
            /\ Count(IsEdge(a)) + Count(Owners(a) # {}) + Count(Discarded(a)) = 1
            /\ visited[a] = 1

\* C1 witness: a finished run with two regions, a discarded run and an edge.
C1_Witness ==
    /\ pc = "done"
    /\ Len(masks) >= 2
    /\ DiscardedRuns # {}
    /\ \E a \in Addresses : IsEdge(a)

Adjacent(a, b) ==
    LET ax == a % Width
        ay == a \div Width
        bx == b % Width
        by == b \div Width
    IN  \/ ay = by /\ (ax = bx + 1 \/ bx = ax + 1)
        \/ ax = bx /\ (ay = by + 1 \/ by = ay + 1)

\* The members of S joined to R by axis-aligned steps inside S.
RECURSIVE Grow(_, _)
Grow(S, R) ==
    LET R2 == R \cup {b \in S : \E a \in R : Adjacent(a, b)}
    IN  IF R2 = R THEN R ELSE Grow(S, R2)

Connected(S) == S = {} \/ Grow(S, {CHOOSE a \in S : TRUE}) = S
Maximal(S) ==
    \A a \in S : \A b \in Addresses \ S : Adjacent(a, b) => IsEdge(b)

\* C2 as stated: every emitted region is 4-connected and maximal.
C2_MaximalComponents ==
    pc = "done" =>
        \A i \in 1 .. Len(masks) :
            Connected(MaskPixels(masks[i])) /\ Maximal(MaskPixels(masks[i]))

\* The run that collected address b was cut off at the ceiling.
CutOffAt(b) == \E k \in 1 .. Len(runs) : b \in Range(runs[k].pixels) /\ runs[k].truncated

\* C2 amended: every emitted region is a 4-connected set of non-edge pixels,
\* and a non-edge pixel 4-adjacent to a member lies outside the region only
\* when the region's own flood fill, or the one that collected that pixel,
\* was cut off at the pixel ceiling.
C2_MaximalUnlessCutOff ==
    pc = "done" =>
        \A i \in 1 .. Len(masks) :
            LET S == MaskPixels(masks[i])
            IN  /\ Connected(S)
                /\ \A a \in S : ~IsEdge(a)
                /\ \A a \in S : \A b \in Addresses \ S :
                      (Adjacent(a, b) /\ ~IsEdge(b)) =>
                          (CutOffAt(a) \/ CutOffAt(b))

\* C2 witness: one region cut off at the ceiling beside a complete region
\* of two or more pixels.
C2_Witness ==
    /\ pc = "done"
    /\ \E k \in KeptRuns : runs[k].truncated
    /\ \E i \in 1 .. Len(masks) :
          /\ Len(masks[i].pixelIndices) >= 2
          /\ Maximal(MaskPixels(masks[i]))

\* C3: on a fresh cache the array buildPixelLookup returns holds r.id at
\* every pixel of every region r and -1 at every pixel of no region.
C3_OwnershipIndex ==
    (pc = "done" /\ pixelLookup # Null) =>
        /\ DOMAIN pixelLookup.array = Addresses
        /\ \A a \in Addresses :
            /\ \A i \in Owners(a) : pixelLookup.array[a] = masks[i].id
            /\ Owners(a) = {} => pixelLookup.array[a] = NoMask

\* C3 witness: a lookup over two regions and a void (discarded) pixel.
C3_Witness ==
    /\ pc = "done"
    /\ pixelLookup # Null
    /\ Len(masks) >= 2
    /\ \E a \in Addresses : Discarded(a) /\ pixelLookup.array[a] = NoMask

\* C4: after any sequence of buildPixelLookup calls, on RegionSets that may
\* share an imageSetId, the array returned for a RegionSet marks exactly
\* that RegionSet's own regions.
C4_CacheFollowsRegionSet ==
    (pc = "done" /\ pixelLookup # Null) =>
        /\ DOMAIN pixelLookup.array = Addresses
        /\ \A i \in 1 .. Len(masks) :
              {a \in Addresses : pixelLookup.array[a] = masks[i].id}
                  = MaskPixels(masks[i])
        /\ \A a \in Addresses :
              pixelLookup.array[a] \in {NoMask} \cup {masks[i].id : i \in 1 .. Len(masks)}

\* C5: findMaskAtPoint returns null outside the image, and inside it the
\* region whose pixelIndices hold y * width + x, or null when there is none.
C5_HitTest ==
    hit # Null =>
        LET p == hit.y * Width + hit.x
            inside == hit.x >= 0 /\ hit.x < Width /\ hit.y >= 0 /\ hit.y < Height
        IN  /\ ~inside => hit.result = Null
            /\ (inside /\ Owners(p) = {}) => hit.result = Null
            /\ inside => \A i \in Owners(p) : hit.result = masks[i]

\* C5 witness: a click just right of the image, in a row whose successor
\* row starts with a region's pixel (the address y * width + x is owned).
C5_Witness ==
    /\ hit # Null
    /\ hit.x = Width /\ hit.y >= 0 /\ hit.y < Height
    /\ Owners(hit.y * Width + hit.x) # {}
    /\ hit.result = Null

\* C6: a flood fill that stops at the ceiling with connected non-edge pixels
\* still unexplored is reported to the caller as "region too large".
C6_TooLargeReported ==
    (pc = "done" /\ \E k \in 1 .. Len(runs) : runs[k].truncated) =>
        status = "regionTooLarge"

\* The two buffers differ in shape, or the image has zero area.
Malformed ==
    \/ normalData.width # edgeData.width
    \/ normalData.height # edgeData.height
    \/ edgeData.width * edgeData.height = 0

\* C7: on buffers of different shapes, or of zero area, segmentation fails
\* with a malformed-input condition and emits no region.
C7_MalformedRejected ==
    Malformed =>
        /\ masks = <<>>
        /\ pc = "done" => status = "malformedInput"

\* C8: every region's pixelCount is the length of its pixelIndices and at
\* least the minimum size; the pixels of a discarded run stay visited, are
\* in no region and are -1 in the ownership index.
C8_MinimumSize ==
    /\ \A i \in 1 .. Len(masks) :
          /\ masks[i].pixelCount = Len(masks[i].pixelIndices)
          /\ masks[i].pixelCount >= minMaskSize
    /\ \A k \in DiscardedRuns : \A a \in Range(runs[k].pixels) :
          /\ visited[a] = 1
          /\ Owners(a) = {}
          /\ a \notin Range(pixels)
          /\ pixelLookup # Null => pixelLookup.array[a] = NoMask

\* C8 witness: a discarded run, a region emitted after it, and the index.
C8_Witness ==
    /\ pixelLookup # Null
    /\ Len(runs) >= 2
    /\ ~runs[1].kept /\ runs[1].pixels # <<>>
    /\ runs[2].kept

SetMin(S) == CHOOSE a \in S : \A b \in S : a <= b

\* C9: masks[i].id = i (0-based), a discarded run consumes no id, the first
\* entry of a region's pixelIndices is its smallest address, and these
\* seeds increase strictly along the list.
C9_DenseIds ==
    /\ Len(masks) = Cardinality(KeptRuns)
    /\ (pc = "scan" \/ pc = "done") => maskId = Len(masks)
    /\ \A i \in 1 .. Len(masks) :
          /\ masks[i].id = i - 1
          /\ masks[i].pixelIndices # <<>>
          /\ masks[i].pixelIndices[1] = SetMin(MaskPixels(masks[i]))
          /\ i < Len(masks) =>
                masks[i].pixelIndices[1] < masks[i + 1].pixelIndices[1]

\* C9 witness: a discarded run between two emitted regions.
C9_Witness ==
    /\ pc = "done"
    /\ Len(runs) >= 3
    /\ runs[1].kept /\ ~runs[2].kept /\ runs[3].kept
    /\ masks[2].id = 1

\* The entries of the last findSmartGroup call, as the code scores them.
GroupEntries == SimilarityScores(seedMask, allMasks, maskData, useImageData)
\* colorSim of an entry, compared with 0.88 in exact arithmetic.
BelowColorThreshold(e) == e.colorDistSq * 10000 > 144 * 195075

Survivors ==
    LET Gate(e) == ~BelowColorThreshold(e) IN SelectSeq(GroupEntries, Gate)
\* The cutoff the elbow rule gives for scores of any length, in
\* 1/(100 * Unit): 0.98 x the score before the largest qualifying drop,
\* else 0.92 x the top score.
ElbowCutoff(scores, minThreshold) ==
    IF scores = <<>> THEN 0
    ELSE LET best == ElbowLoop(scores, 1, minThreshold,
                               [num |-> 0, den |-> 1, elbowIdx |-> 0])
         IN  IF best.elbowIdx > 0 THEN scores[best.elbowIdx] * 98
             ELSE scores[1] * 92
ResultIds(result) == {result.list[i].id : i \in 1 .. Len(result.list)}

\* C11: for any number of colour-gate survivors (at most 15, so that nothing
\* is truncated), the regions other than the seed that findSmartGroup
\* returns are exactly the survivors whose score is at least
\* max(elbow cutoff, minimum threshold).
C11_ElbowCutoff ==
    groupResult # Null =>
        LET survivors == Survivors
            scores == [i \in 1 .. Len(survivors) |-> survivors[i].score]
            cut == Max(ElbowCutoff(scores, similarityThreshold),
                       similarityThreshold * 100)
        IN  Len(survivors) <= maxSelections =>
                \A k \in 1 .. Len(survivors) :
                    survivors[k].mask.id # seedMask.id =>
                        (survivors[k].mask.id \in ResultIds(groupResult)
                            <=> survivors[k].score * 100 >= cut)

\* C12: findSmartGroup returns at most 15 regions, the seed included,
\* whether or not the seed is in allMasks.
C12_AtMostFifteen ==
    groupResult # Null => Len(groupResult.list) <= maxSelections

SeedPositions(list) == {i \in 1 .. Len(list) : list[i].id = seedMask.id}

\* C13: the list findSmartGroup returns holds the seed exactly once,
\* whether or not allMasks holds it, for every threshold, with and without
\* colour samples.
C13_SeedOnce ==
    groupResult # Null => Cardinality(SeedPositions(groupResult.list)) = 1

\* C13 witness: the seed is not in allMasks and is returned, once, together
\* with another region.
C13_Witness ==
    /\ groupResult # Null
    /\ SeedPositions(allMasks) = {}
    /\ Len(groupResult.list) > 1
    /\ Cardinality(SeedPositions(groupResult.list)) = 1

\* C14: with fewer than two regions in allMasks (none, the seed alone, one
\* other region) each clustering entry point returns just the seed.
C14_FewCandidatesJustSeed ==
    Len(allMasks) < 2 =>
        /\ groupResult # Null => groupResult.list = <<seedMask>>
        /\ colorSimilar # Null => colorSimilar.list = <<seedMask>>
        /\ normalSimilar # Null => normalSimilar.list = <<seedMask>>

\* The mean colour of a region's pixels, rounded per channel, or mid-grey
\* without colour samples.
RECURSIVE ChannelSum(_, _)
ChannelSum(pxs, c) ==
    IF pxs = <<>> THEN 0
    ELSE maskData.data[Head(pxs) + 1][c] + ChannelSum(Tail(pxs), c)
MeanColor(m) ==
    IF useImageData /\ m.pixelIndices # <<>>
    THEN [c \in 1 .. 3 |->
            MathRound(ChannelSum(m.pixelIndices, c), Len(m.pixelIndices))]
    ELSE <<128, 128, 128>>
MeanDistSq(a, b) ==
    LET ca == MeanColor(a)
        cb == MeanColor(b)
    IN  (ca[1] - cb[1]) * (ca[1] - cb[1]) + (ca[2] - cb[2]) * (ca[2] - cb[2])
        + (ca[3] - cb[3]) * (ca[3] - cb[3])
\* (1 - colorThreshold)^2 * 195075 in 1/10000, colorThreshold in percent.
ColorBudget(colorThreshold) ==
    (100 - colorThreshold) * (100 - colorThreshold) * 195075
\* The same region with another normal, pixel count and bounding box.
Reshaped(m) ==
    [id |-> m.id, pixelIndices |-> m.pixelIndices,
     bounds |-> [minX |-> 0, maxX |-> 3, minY |-> 0, maxY |-> 1],
     avgNormal |-> IF m.avgNormal = NormalSide THEN NormalFront ELSE NormalSide,
     pixelCount |-> m.pixelCount + 7]
IdsOf(list) == [i \in 1 .. Len(list) |-> list[i].id]

\* C18 as stated: findColorSimilarMasks returns, in input order, exactly
\* the regions whose colour similarity to the seed exceeds colorThreshold.
C18_ColorExceeds ==
    colorSimilar # Null =>
        LET Exceeds(m) ==
                MeanDistSq(seedMask, m) * 10000
                    < ColorBudget(colorSimilar.colorThreshold)
        IN  colorSimilar.list = SelectSeq(allMasks, Exceeds)

\* C18 amended: findColorSimilarMasks returns, in input order, exactly the
\* regions whose colour similarity to the seed is at least colorThreshold,
\* and the same ids when avgNormal, pixelCount and bounds are changed.
C18_ColorAtLeast ==
    colorSimilar # Null =>
        LET AtLeast(m) ==
                MeanDistSq(seedMask, m) * 10000
                    <= ColorBudget(colorSimilar.colorThreshold)
        IN  /\ colorSimilar.list = SelectSeq(allMasks, AtLeast)
            /\ IdsOf(findColorSimilarMasks(
                        Reshaped(seedMask),
                        [i \in 1 .. Len(allMasks) |-> Reshaped(allMasks[i])],
                        maskData, useImageData, colorSimilar.colorThreshold))
                  = IdsOf(colorSimilar.list)

\* C18 witness: with colour samples, a region whose normal and pixel count
\* differ from the seed's is returned and another region is left out.
C18_Witness ==
    /\ colorSimilar # Null
    /\ useImageData
    /\ \E i \in 1 .. Len(colorSimilar.list) :
          /\ colorSimilar.list[i].avgNormal # seedMask.avgNormal
          /\ colorSimilar.list[i].pixelCount # seedMask.pixelCount
    /\ Len(colorSimilar.list) < Len(allMasks)

\* The colour similarities of the elbow scenario, in percent.
ElbowSims == <<95, 93, 90, 89, 60, 55, 50, 40, 30>>
NotSeed(m) == m.id # seedMask.id
\* The call is the elbow scenario: nine candidates besides the seed with
\* the colour similarities of ElbowSims (to two decimals), colour samples
\* and the default threshold.
ElbowScenario ==
    /\ seedMask # Null
    /\ useImageData
    /\ similarityThreshold = 7500
    /\ LET others == SelectSeq(allMasks, NotSeed)
       IN  /\ Len(others) = Len(ElbowSims)
           /\ \A k \in 1 .. Len(others) :
                 /\ others[k].id = k
                 /\ MathRound(ColorSim(MeanDistSq(seedMask, others[k])), 100)
                        = ElbowSims[k]

\* C15 as stated: in the elbow scenario findSmartGroup returns exactly the
\* seed and the four candidates of colour similarity >= 0.88.
C15_ExactlyFour ==
    (ElbowScenario /\ groupResult # Null) =>
        ResultIds(groupResult) = 0 .. 4

\* C15 amended: in the elbow scenario findSmartGroup returns the seed, none
\* of the five candidates below 0.88, and of the other four exactly those
\* whose strict-weight score reaches max(elbow cutoff, 0.75).
C15_SeedAndQualifyingOfFour ==
    (ElbowScenario /\ groupResult # Null) =>
        LET survivors == Survivors
            scores == [i \in 1 .. Len(survivors) |-> survivors[i].score]
            cut == Max(ElbowCutoff(scores, similarityThreshold),
                       similarityThreshold * 100)
        IN  /\ 0 \in ResultIds(groupResult)
            /\ ResultIds(groupResult) \subseteq 0 .. 4
            /\ \A k \in 1 .. Len(survivors) :
                  survivors[k].mask.id # 0 =>
                      (survivors[k].mask.id \in ResultIds(groupResult)
                          <=> survivors[k].score * 100 >= cut)

\* C15 witness: an elbow scenario in which all four are returned, and the
\* seed was not in allMasks.
C15_Witness ==
    /\ ElbowScenario
    /\ groupResult # Null
    /\ SeedPositions(allMasks) = {}
    /\ ResultIds(groupResult) = 0 .. 4

\* C16: calculateSimilarity(a, b) = calculateSimilarity(b, a) for every
\* pair of feature vectors, image size and weight tuple, areas of 0 included.
C16_Symmetric ==
    pairScore # Null => pairScore.ab = pairScore.ba

\* C16 witness: two different feature vectors, one of area 0 and one not,
\* scored in both orders.
C16_Witness ==
    /\ pairScore # Null
    /\ pairScore.a.area = 0
    /\ pairScore.b.area > 1
    /\ pairScore.a.avgColor # pairScore.b.avgColor
    /\ pairScore.ab = pairScore.ba
    /\ pairScore.ab > 0

\* Position of a region id in the list groupMasksByNormal was given.
PositionOf(id) ==
    CHOOSE i \in 1 .. Len(normalGroups.masks) : normalGroups.masks[i].id = id
NormalOf(id) == normalGroups.masks[PositionOf(id)].avgNormal
\* The ids in the groups before group g.
AssignedBefore(g) ==
    UNION {Range(normalGroups.groups[h].members) : h \in 1 .. g - 1}
Near(idA, idB) ==
    WithinTolerance(NormalOf(idA), NormalOf(idB), normalGroups.angleTolerance)

\* C17: the groups of groupMasksByNormal partition the region ids; each
\* group's key is its first member and the earliest region in input order
\* not assigned before; every other member is within the tolerance of that
\* leader and of no earlier leader.
C17_GreedyGroups ==
    normalGroups # Null =>
        LET list == normalGroups.masks
            groups == normalGroups.groups
        IN  /\ \A i \in 1 .. Len(list) :
                  Cardinality({<<g, k>> \in (1 .. Len(groups)) \X (1 .. Len(list)) :
                                  /\ k <= Len(groups[g].members)
                                  /\ groups[g].members[k] = list[i].id}) = 1
            /\ \A g \in 1 .. Len(groups) :
                  /\ Range(groups[g].members) \subseteq {list[i].id : i \in 1 .. Len(list)}
                  /\ groups[g].key = groups[g].members[1]
                  /\ \A i \in 1 .. Len(list) :
                        list[i].id \notin AssignedBefore(g)
                            => PositionOf(groups[g].key) <= i
                  /\ groups[g].key \notin AssignedBefore(g)
                  /\ \A k \in 2 .. Len(groups[g].members) :
                        /\ Near(groups[g].key, groups[g].members[k])
                        /\ \A h \in 1 .. g - 1 :
                              ~Near(groups[h].key, groups[g].members[k])

\* C17 witness: a group of two or more, and a later group whose leader is
\* within the tolerance of a member, not the leader, of that group.
C17_Witness ==
    /\ normalGroups # Null
    /\ \E g \in 1 .. Len(normalGroups.groups) :
          /\ Len(normalGroups.groups[g].members) > 1
          /\ \E h \in g + 1 .. Len(normalGroups.groups) :
                \E k \in 2 .. Len(normalGroups.groups[g].members) :
                    Near(normalGroups.groups[g].members[k],
                         normalGroups.groups[h].key)

SetMax(S) == CHOOSE a \in S : \A b \in S : a >= b
Xs(m) == {p % Width : p \in MaskPixels(m)}
Ys(m) == {p \div Width : p \in MaskPixels(m)}

\* C20: the bounding box of every emitted region is tight: its four bounds
\* are the minimum and maximum of p mod width and floor(p / width) over the
\* region's pixels, and lie inside the image.
C20_TightBounds ==
    \A i \in 1 .. Len(masks) :
        LET m == masks[i]
        IN  /\ m.bounds.minX = SetMin(Xs(m))
            /\ m.bounds.maxX = SetMax(Xs(m))
            /\ m.bounds.minY = SetMin(Ys(m))
            /\ m.bounds.maxY = SetMax(Ys(m))
            /\ 0 <= m.bounds.minX /\ m.bounds.maxX < Width
            /\ 0 <= m.bounds.minY /\ m.bounds.maxY < Height

\* C20 witness: an emitted region that does not touch the first column,
\* spans two rows and does not fill its bounding box.
C20_Witness ==
    \E i \in 1 .. Len(masks) :
        LET m == masks[i]
        IN  /\ m.bounds.minX > 0
            /\ m.bounds.maxY > m.bounds.minY
            /\ (m.bounds.maxX - m.bounds.minX + 1)
                    * (m.bounds.maxY - m.bounds.minY + 1) > m.pixelCount

\* The image is a cross image.
IsCross == \E r \in CrossLines, c \in CrossLines : edgeData = CrossImage(r, c)
RunsOfSize(n) == {k \in 1 .. Len(runs) : Len(runs[k].pixels) = n}
\* The corner pixels of a 4 x 4 image.
Corners == {0, 3, 12, 15}
\* What the claim says of the emitted regions: none with minimum size 5,
\* four with minimum size 1, each with the bounding box of its pixels.
CrossEmitted ==
    /\ minMaskSize = 5 => masks = <<>>
    /\ minMaskSize = 1 =>
          /\ Len(masks) = 4
          /\ \A i \in 1 .. Len(masks) :
                /\ masks[i].pixelIndices = runs[i].pixels
                /\ masks[i].bounds.minX = SetMin(Xs(masks[i]))
                /\ masks[i].bounds.maxX = SetMax(Xs(masks[i]))
                /\ masks[i].bounds.minY = SetMin(Ys(masks[i]))
                /\ masks[i].bounds.maxY = SetMax(Ys(masks[i]))

\* C19 as stated: segmenting a 4 x 4 cross image finds 4 corner regions of
\* 3 pixels each; none is emitted with minimum size 5 and all 4 with 1.
C19_CrossThreeEach ==
    (pc = "done" /\ IsCross) =>
        /\ Len(runs) = 4
        /\ \A k \in 1 .. Len(runs) : Len(runs[k].pixels) = 3
        /\ CrossEmitted

\* C19 amended: segmenting a 4 x 4 cross image finds 4 corner regions of
\* 1, 2, 2 and 4 pixels (9 in all); none is emitted with minimum size 5 and
\* all 4 with minimum size 1, each with the bounding box of its pixels.
C19_CrossNinePixels ==
    (pc = "done" /\ IsCross) =>
        /\ Len(runs) = 4
        /\ \A k \in 1 .. Len(runs) :
              Cardinality(Range(runs[k].pixels) \cap Corners) = 1
        /\ Cardinality(RunsOfSize(1)) = 1
        /\ Cardinality(RunsOfSize(2)) = 2
        /\ Cardinality(RunsOfSize(4)) = 1
        /\ CrossEmitted

\* C19 witness: a cross image segmented with minimum size 1 into 4 regions.
C19_Witness ==
    /\ pc = "done"
    /\ IsCross
    /\ minMaskSize = 1
    /\ Len(masks) = 4

\* ------------------------------------------------------------ determinism
\* The finished run was given the buffers and parameters of the run before.
SameInputsAsPreviousRun ==
    /\ pc = "done"
    /\ previousRun # Null
    /\ previousRun.edgeData = edgeData
    /\ previousRun.normalData = normalData
    /\ previousRun.minMaskSize = minMaskSize
    /\ previousRun.maxFloodFillStack = maxFloodFillStack

C30_HitTestsAgree ==
    hit # Null =>
        generatorFindMaskAtPoint(masks, hit.x, hit.y, Width) = hit.result

\* ------------------------------------------------------------------ paint
HslOfPaint(call) ==
    rgbToHsl(call.paintColor[1], call.paintColor[2], call.paintColor[3])

\* The two calls on record share the base and the normal, and their paints
\* share hue and saturation but not lightness.
PaintsDifferInLightnessOnly ==
    /\ painted # Null
    /\ painted.first.basePixel = painted.last.basePixel
    /\ painted.first.normalPixel = painted.last.normalPixel
    /\ HslOfPaint(painted.first).h = HslOfPaint(painted.last).h
    /\ HslOfPaint(painted.first).s = HslOfPaint(painted.last).s
    /\ HslOfPaint(painted.first).l # HslOfPaint(painted.last).l

\* C22: applyPaintColor computes the result lightness from the base pixel's
\* lightness and not from the paint's: for a fixed base and normal, two
\* paints with the same hue and saturation but different lightness give the
\* same HSL lightness, before the 8-bit rounding.
C22_LightnessFromBase ==
    PaintsDifferInLightnessOnly => painted.first.hsl.l = painted.last.hsl.l

\* C23: for every base, paint and optional normal with integer channels in
\* 0..255, each channel applyPaintColor returns is an integer in [0, 255],
\* and a call with the same arguments made after any other calls returns
\* the same triple.
C23_ChannelsInRangeAndRepeatable ==
    painted # Null =>
        /\ \A call \in {painted.first, painted.last} :
              \A i \in 1 .. 3 : call.result[i] \in 0 .. 255
        /\ SameArguments(painted.first, painted.last) =>
              painted.first.result = painted.last.result

\* The first call was made again after others, on a white pixel that faces
\* the light, where only the clamp keeps the channels in range.
C23_Witness ==
    /\ painted # Null
    /\ painted.interleaved
    /\ SameArguments(painted.first, painted.last)
    /\ painted.last.normalPixel # NoNormal
    /\ painted.last.hsl.l = 9800
    /\ painted.last.result[1] < 255

\* ---------------------------------------------------------- HSL round trip
\* The distance of two hues around the circle.
HueDistance(a, b) == Min(Abs(a - b), 360 * Degree - Abs(a - b))

\* C24 as stated: for all s, l in [0, 1] and h in [0, 360),
\* rgbToHsl(hslToRgb(h, s, l)) reproduces (h, s, l) within floating
\* tolerance, h not being compared when s = 0. The tolerance allowed here,
\* 0.001 and a tenth of a degree, is far wider than a floating one.
C24_RoundTripWithinTolerance ==
    roundTrip # Null =>
        /\ Abs(roundTrip.back.l - roundTrip.hsl.l) <= Unit \div 1000
        /\ Abs(roundTrip.back.s - roundTrip.hsl.s) <= Unit \div 1000
        /\ roundTrip.hsl.s # 0 =>
              HueDistance(roundTrip.back.h, roundTrip.hsl.h) <= Degree \div 10

\* C24, amended: the round trip reproduces l within 1/255, and it
\* reproduces (h, s, l) when (h, s, l) is the rgbToHsl of integer channels.
C24_RoundTripOfChannels ==
    roundTrip # Null =>
        /\ 255 * Abs(roundTrip.back.l - roundTrip.hsl.l) <= Unit
        /\ roundTrip.fromChannels => roundTrip.back = roundTrip.hsl

\* The round trip of a coloured, neither saturated nor grey, triple of
\* channels whose hue needs the wrap of hue2rgb.
C24_Witness ==
    /\ roundTrip # Null
    /\ roundTrip.fromChannels
    /\ roundTrip.hsl.s \notin {0, Unit}
    /\ roundTrip.hsl.h > 240 * Degree
    /\ roundTrip.back = roundTrip.hsl

\* --------------------------------------------------------- edge distances
\* The squared distances from pixel p, over the non-zero offsets within the
\* radius, to the positions outside the image or not in paintedPositions.
UnpaintedDistSq(p, paintedPositions) ==
    LET R == edgeDistances.maxDistance
    IN  {dx * dx + dy * dy : <<dx, dy>> \in
            {o \in ((-R) .. R) \X ((-R) .. R) :
                LET nx == (p % FeatherWidth) + o[1]
                    ny == (p \div FeatherWidth) + o[2]
                IN  /\ o # <<0, 0>>
                    /\ o[1] * o[1] + o[2] * o[2] <= R * R
                    /\ \/ nx \notin 0 .. (FeatherWidth - 1)
                       \/ ny \notin 0 .. (FeatherHeight - 1)
                       \/ (ny * FeatherWidth + nx) \notin paintedPositions}}

\* Every member pixel has one entry, in (0, 1], equal to min(R, d) / R for
\* the smallest distance d to a position that is not in paintedPositions.
EdgeDistancesOver(paintedPositions) ==
    LET R == edgeDistances.maxDistance
        members == Range(edgeDistances.pixelIndices)
    IN  /\ DOMAIN edgeDistances.result = members
        /\ \A p \in members :
              LET found == UnpaintedDistSq(p, paintedPositions)
                  value == edgeDistances.result[p]
              IN  /\ value > 0 /\ value <= Unit
                  /\ found = {} => value = Unit
                  /\ found # {} =>
                        value = NormalizedDistance(SetMin(found), R)

C27_ReloadRestoresProgress ==
    beforeReload # Null =>
        /\ currentSetId = beforeReload.currentSetId
        /\ activePaintColor = beforeReload.activePaintColor
        /\ appliedColors = beforeReload.appliedColors
        /\ selectedMaskIds = beforeReload.selectedMaskIds

\* C28: once the data of the current image set is shown, every applied colour
\* and every selected id comes from a click hit-tested against the regions of
\* that image set.
C28_IdsOfCurrentSetOnly ==
    (/\ paintData.maskData # Null
     /\ ~paintData.isLoading
     /\ paintData.maskData.imageSetId = currentSetId) =>
        /\ \A id \in DOMAIN appliedColors :
               origin.applied[id] = currentSetId
        /\ \A id \in selectedMaskIds :
               origin.selected[id] = currentSetId

\* C29: in the component with loadData, once no load is pending and no
\* error is held, maskData, pixelLookup and both images belong to the image
\* set named by currentSetId.
C29_LoadedDataOfCurrentSet ==
    (loads = <<>> /\ paintData.error = Null) =>
        /\ paintData.maskData = SetMaskData(currentSetId)
        /\ paintData.pixelLookup =
               [array |-> BuildLookupArray(SetMaskData(currentSetId))]
        /\ paintData.cleanedImage = [src |-> currentSetId]
        /\ paintData.normalImage = [src |-> currentSetId]

====
